---- MODULE Spec2Model ----
(***************************************************************************)
(* A model of gogemini's credential pool (internal/keymanager), of the     *)
(* persistence rows it reads and writes (internal/db), and of the          *)
(* OpenAI-compatible reverse proxy with its retrying transport             *)
(* (internal/proxy).                                                       *)
(*                                                                         *)
(* A credential is identified by its database id; the key string is unique *)
(* per row (uniqueIndex), so the id also stands for the key string.        *)
(***************************************************************************)
EXTENDS Integers, Sequences, FiniteSets, TLC

\* ------------------------------------------------------------------ bounds

\* Number of credential rows in the store.
NumKeys == 2

\* Largest usage_count a row starts with.
MaxInitUsage == 1

\* Number of rows in the behaviours that only select keys.
PoolSize == 3

\* Number of manager operations the callers outside the tracked request
\* start in one behaviour (selections, reports, reloads, ...).
MaxOps == 5

\* The same, in the behaviours that use the admin API.
MaxAdminOps == 4

\* Largest pool a compat request is served from (one more than
\* maxRetryAttempts, so that the cap on the attempts is reached).
MaxProxyKeys == 6

\* Largest difference between the usage counts of two neighbouring keys of
\* such a pool.
MaxUsageGap == 2

\* Operations other requests start while the tracked compat request runs.
MaxProxyOps == 1

\* Capacity of updateQueue in the model (the program allocates 100 slots).
QueueCap == 2

\* FailureCount is not incremented past this value.
MaxFailureCount == 4

\* ------------------------------------------------------- program constants

\* config.Proxy.DisableKeyThreshold (its default).
disableThreshold == 3

\* proxy.maxRetryAttempts
maxRetryAttempts == 5

\* "no key": the empty string GetNextKey returns with an error.
NoKey == 0

VARIABLES
    keys,         \* km.keys: the in-memory pool, a sequence of managedKey
    db,           \* the gemini_keys table: id -> row
    db0,          \* the table as it was at start-up
    updateQueue,  \* km.updateQueue: buffered channel of key strings
    closed,       \* stopChan and updateQueue have been closed
    worker,       \* usageUpdater goroutine: "running" | "stopped"
    reloader,     \* keyReloader goroutine: "running" | "stopped"
    closeRet,     \* Close() has returned
    writes,       \* UpdateGeminiKey goroutines spawned and not yet executed
    selected,     \* per key: number of times GetNextKey returned it
    dropped,      \* per key: number of usage updates dropped (queue full)
    tripped,      \* keys disabled at the threshold with no HandleKeySuccess since
    streak,       \* per key: consecutive HandleKeyFailure calls since (0, enabled)
    last,         \* the last operation and its result
    budget,       \* operations the other callers may still start
    probes,       \* health probes in flight (testAPIKey) and their callers
    req,          \* the tracked client request to the OpenAI-compatible proxy
    proc,         \* the process: main goroutine, HTTP server, scheduler
    auth,         \* a request at AuthMiddleware, and the api_keys table
    cron,         \* the scheduler: its configuration and registered jobs
    native        \* the balancer of the native protocol and its request

kmVars == <<keys, db, db0, updateQueue, closed, worker, reloader, closeRet, writes>>
histVars == <<selected, dropped, tripped, streak, last, budget>>
vars == <<keys, db, db0, updateQueue, closed, worker, reloader, closeRet, writes,
          selected, dropped, tripped, streak, last, budget, probes, req, proc,
          auth, cron, native>>

\* The state around the key manager: the middleware and the scheduler.
edgeVars == <<auth, cron, native>>

\* The ids (key strings) of the rows of the store.
KeyIds == DOMAIN db

\* ----------------------------------------------------------------- helpers

Range(s) == {s[i] : i \in 1..Len(s)}

Min(a, b) == IF a < b THEN a ELSE b

RECURSIVE SumOver(_, _)
SumOver(f, S) ==
    IF S = {} THEN 0
    ELSE LET x == CHOOSE y \in S : TRUE IN f[x] + SumOver(f, S \ {x})

\* model.GeminiKey as the manager copies it for a row write.
GeminiKey(k) ==
    [ID |-> k.ID, Status |-> k.Status, FailureCount |-> k.FailureCount,
     UsageCount |-> k.UsageCount]

\* &managedKey{GeminiKey: row}: Disabled is false and DisabledAt is the zero
\* time, which is older than any cooldown ("past").
NewManagedKey(addr, id, row) ==
    [addr |-> addr, ID |-> id, Status |-> row.Status,
     FailureCount |-> row.FailureCount, UsageCount |-> row.UsageCount,
     Disabled |-> FALSE, DisabledAt |-> "past"]

\* ------------------------------------------------------------- persistence

\* The ids of the rows with status = 'active'.
ActiveIds(d) == {id \in DOMAIN d : d[id].Status = "active"}

\* Position of row id in ORDER BY usage_count asc (ties in id order).
RankIn(d, id) ==
    Cardinality({j \in ActiveIds(d) :
        \/ d[j].UsageCount < d[id].UsageCount
        \/ d[j].UsageCount = d[id].UsageCount /\ j < id}) + 1

\* A load without the status filter and without the ordering: every row, by id.
LoadAllGeminiKeys(d) == [i \in 1..Cardinality(DOMAIN d) |-> i]

\* db.LoadActiveGeminiKeys: the active rows, usage_count ascending.
LoadActiveGeminiKeys(d) ==
    [i \in 1..Cardinality(ActiveIds(d)) |->
        CHOOSE id \in ActiveIds(d) : RankIn(d, id) = i]

\* db.UpdateGeminiKey: gorm Save writes every column of the row.
UpdateGeminiKey(d, w) ==
    [d EXCEPT ![w.ID] = [Status |-> w.Status, FailureCount |-> w.FailureCount,
                         UsageCount |-> w.UsageCount]]

\* db.IncrementGeminiKeyUsageCount: usage_count = usage_count + 1.
IncrementGeminiKeyUsageCount(d, id) ==
    [d EXCEPT ![id].UsageCount = @ + 1]

\* The same transaction without the test of the status: it reports a flip
\* whenever the count has reached the threshold.
HandleGeminiKeyFailureAnyStatus(d, key, T) ==
    IF key \notin DOMAIN d
    THEN [db |-> d, disabled |-> FALSE, err |-> TRUE]
    ELSE LET n == d[key].FailureCount + 1
             flip == n >= T
         IN  [db |-> [d EXCEPT ![key].FailureCount = n,
                               ![key].Status = IF flip THEN "disabled" ELSE @],
              disabled |-> flip, err |-> FALSE]

\* db.HandleGeminiKeyFailure, one transaction: failure_count + 1 (an error
\* when no row matched), the row read back, and status = 'disabled' when
\* the count has reached the threshold on an active row.
HandleGeminiKeyFailure(d, key, T) ==
    IF key \notin DOMAIN d
    THEN [db |-> d, disabled |-> FALSE, err |-> TRUE]
    ELSE LET n == d[key].FailureCount + 1
             flip == n >= T /\ d[key].Status = "active"
         IN  [db |-> [d EXCEPT ![key].FailureCount = n,
                               ![key].Status = IF flip THEN "disabled" ELSE @],
              disabled |-> flip, err |-> FALSE]

\* ---------------------------------------------------------------- sortKeys

\* One insertion step of sort.Slice's insertion sort: x moves left while it
\* is strictly less than its predecessor.
RECURSIVE InsertKey(_, _)
InsertKey(x, s) ==
    IF s = <<>> \/ ~(x.UsageCount < s[Len(s)].UsageCount)
    THEN Append(s, x)
    ELSE Append(InsertKey(x, SubSeq(s, 1, Len(s) - 1)), s[Len(s)])

\* KeyManager.sortKeys: sort.Slice by UsageCount ascending.  For slices of at
\* most 12 elements sort.Slice is an insertion sort.
RECURSIVE sortKeys(_)
sortKeys(s) ==
    IF s = <<>> THEN <<>>
    ELSE InsertKey(s[Len(s)], sortKeys(SubSeq(s, 1, Len(s) - 1)))

IsSorted(s) ==
    \A i \in 1..Len(s) - 1 : s[i].UsageCount <= s[i + 1].UsageCount

\* -------------------------------------------------------------- GetNextKey

\* A selection loop that does not look at the Disabled flag.
FirstIndexOfAny(ks) == IF ks = <<>> THEN 0 ELSE 1

\* The loop of GetNextKey: index of the first entry that is not disabled,
\* 0 when there is none (keyIndex == -1, or the list is empty).
FirstEnabledIndex(ks) ==
    IF \E i \in 1..Len(ks) : ~ks[i].Disabled
    THEN CHOOSE i \in 1..Len(ks) :
            ~ks[i].Disabled /\ \A j \in 1..(i - 1) : ks[j].Disabled
    ELSE 0

\* The key string GetNextKey returns, NoKey when it returns an error.
NextKeyOf(ks) ==
    IF FirstEnabledIndex(ks) = 0 THEN NoKey ELSE ks[FirstEnabledIndex(ks)].ID

\* A mutation of KeysAfterSelect: the usage count goes up by two.
KeysAfterSelectByTwo(ks) ==
    sortKeys([ks EXCEPT ![FirstEnabledIndex(ks)].UsageCount = @ + 2])

\* km.keys[keyIndex].UsageCount++ followed by km.sortKeys().
KeysAfterSelect(ks) ==
    sortKeys([ks EXCEPT ![FirstEnabledIndex(ks)].UsageCount = @ + 1])

\* A send that always finds room: a queue without a capacity.
QueueHasRoomAlways(q) == TRUE

\* The non-blocking send of GetNextKey: queued when there is room, dropped
\* otherwise.
QueueHasRoom(q) == Len(q) < QueueCap

\* The send of GetNextKey on a closed updateQueue panics (the deferred unlock
\* still runs); the caller gets no key.
SendPanics == closed /\ NextKeyOf(keys) # NoKey

\* KeyManager.GetNextKey under km.mutex; res is the returned key string
\* (NoKey with an error, or when the send panicked after the usage count had
\* been raised and the list re-sorted).
GetNextKey(res) ==
    /\ res = IF SendPanics THEN NoKey ELSE NextKeyOf(keys)
    /\ IF NextKeyOf(keys) = NoKey
       THEN UNCHANGED <<keys, updateQueue, selected, dropped>>
       ELSE LET k == NextKeyOf(keys) IN
            /\ keys' = KeysAfterSelect(keys)
            /\ IF closed
               THEN UNCHANGED <<updateQueue, selected, dropped>>
               ELSE /\ selected' = [selected EXCEPT ![k] = @ + 1]
                    /\ IF QueueHasRoom(updateQueue)
                       THEN /\ updateQueue' = Append(updateQueue, k)
                            /\ UNCHANGED dropped
                       ELSE /\ dropped' = [dropped EXCEPT ![k] = @ + 1]
                            /\ UNCHANGED updateQueue

\* A mutation of GetAvailableKeyCount: disabled entries are counted too.
CountAllKeys(ks) == Len(ks)

\* KeyManager.GetAvailableKeyCount
GetAvailableKeyCount(ks) == Cardinality({i \in 1..Len(ks) : ~ks[i].Disabled})

\* -------------------------------------------------------- failure accounting

\* Index of the first entry whose Key equals key (the loops break there),
\* 0 when the key is not in the pool.
IndexOfKey(ks, key) ==
    IF \E i \in 1..Len(ks) : ks[i].ID = key
    THEN CHOOSE i \in 1..Len(ks) :
            ks[i].ID = key /\ \A j \in 1..(i - 1) : ks[j].ID # key
    ELSE 0

\* The same step without the test of Disabled: every failure at or past the
\* threshold sets DisabledAt again.
FailedKeyRestartsTimer(k) ==
    LET f == k.FailureCount + 1 IN
    IF f >= disableThreshold
    THEN [k EXCEPT !.FailureCount = f, !.Disabled = TRUE,
                   !.DisabledAt = "now", !.Status = "disabled"]
    ELSE [k EXCEPT !.FailureCount = f]

\* The entry HandleKeyFailure leaves behind.
FailedKey(k) ==
    LET f == k.FailureCount + 1 IN
    IF f >= disableThreshold /\ ~k.Disabled
    THEN [k EXCEPT !.FailureCount = f, !.Disabled = TRUE,
                   !.DisabledAt = "now", !.Status = "disabled"]
    ELSE [k EXCEPT !.FailureCount = f]

\* KeyManager.HandleKeyFailure under km.mutex: the in-memory transition and
\* the spawn of the goroutine that saves the copied row.
HandleKeyFailure(key) ==
    LET i == IndexOfKey(keys, key) IN
    IF i = 0
    THEN UNCHANGED <<keys, writes>>
    ELSE /\ keys' = [keys EXCEPT ![i] = FailedKey(keys[i])]
         /\ writes' = writes \cup {GeminiKey(FailedKey(keys[i]))}

\* A guard that lets every success through to the reset and the save.
NeedsResetAlways(k) == TRUE

\* The guard of HandleKeySuccess: only a key with failures or a disabled key
\* is touched.
NeedsReset(k) == k.FailureCount > 0 \/ k.Disabled

\* The entry HandleKeySuccess leaves behind.
RevivedKey(k) ==
    IF NeedsReset(k)
    THEN [k EXCEPT !.FailureCount = 0, !.Disabled = FALSE, !.Status = "active"]
    ELSE k

\* KeyManager.HandleKeySuccess under km.mutex.
HandleKeySuccess(key) ==
    LET i == IndexOfKey(keys, key) IN
    IF i = 0 \/ ~NeedsReset(keys[i])
    THEN UNCHANGED <<keys, writes>>
    ELSE /\ keys' = [keys EXCEPT ![i] = RevivedKey(keys[i])]
         /\ writes' = writes \cup {GeminiKey(RevivedKey(keys[i]))}

\* History of the failure accounting: the keys that reached the threshold
\* and have seen no HandleKeySuccess call since, and the run of consecutive
\* HandleKeyFailure calls on a key that was at (0, enabled) when it began.
HistAfterFailure(key) ==
    LET i == IndexOfKey(keys, key) IN
    /\ tripped' = IF i # 0 /\ ~keys[i].Disabled /\ FailedKey(keys[i]).Disabled
                  THEN tripped \cup {key} ELSE tripped
    /\ streak' = [streak EXCEPT ![key] =
                    IF i = 0 THEN 0
                    ELSE IF @ > 0 \/ (keys[i].FailureCount = 0 /\ ~keys[i].Disabled)
                         THEN Min(@ + 1, disableThreshold)
                         ELSE 0]

HistAfterSuccess(key) ==
    /\ tripped' = tripped \ {key}
    /\ streak' = [streak EXCEPT ![key] = 0]

\* FailureCount stays within the model's range.
CanFail(key) ==
    LET i == IndexOfKey(keys, key) IN
    i # 0 => keys[i].FailureCount < MaxFailureCount

\* ------------------------------------------------------------------ actions

\* The operation of this step, the key it was about and whether it succeeded.
Did(op, key, ok) == last' = [op |-> op, key |-> key, ok |-> ok]

\* A caller outside the tracked request starts one more operation.
Spend ==
    /\ budget > 0
    /\ budget' = budget - 1

\* A caller other than the tracked request selects a key (the native engine,
\* or another client's request).
Select ==
    /\ Spend
    /\ \E res \in KeyIds \cup {NoKey} :
        /\ GetNextKey(res)
        /\ Did("GetNextKey", res, TRUE)
    /\ UNCHANGED <<db, db0, closed, worker, reloader, closeRet, writes,
                   tripped, streak, probes, req, proc, edgeVars>>

\* Another caller reports a failed request for key.
ReportFailure(key) ==
    /\ Spend
    /\ CanFail(key)
    /\ HandleKeyFailure(key)
    /\ HistAfterFailure(key)
    /\ Did("HandleKeyFailure", key, TRUE)
    /\ UNCHANGED <<db, db0, updateQueue, closed, worker, reloader, closeRet,
                   selected, dropped, probes, req, proc, edgeVars>>

\* Another caller reports a successful request for key.
ReportSuccess(key) ==
    /\ Spend
    /\ HandleKeySuccess(key)
    /\ HistAfterSuccess(key)
    /\ Did("HandleKeySuccess", key, TRUE)
    /\ UNCHANGED <<db, db0, updateQueue, closed, worker, reloader, closeRet,
                   selected, dropped, probes, req, proc, edgeVars>>

\* The addresses of the entries that goroutines in flight hold pointers to.
HeldAddrs == {p.addr : p \in probes}

\* The n-th smallest address that no goroutine in flight points to: a new
\* entry is a new object, distinct from every object still referenced.
RECURSIVE NthFreeAddr(_, _)
NthFreeAddr(n, from) ==
    IF from \in HeldAddrs THEN NthFreeAddr(n, from + 1)
    ELSE IF n = 1 THEN from
    ELSE NthFreeAddr(n - 1, from + 1)

\* An address for one more entry of the list ks: no goroutine in flight and no
\* entry of ks has it.
FreshAddr(ks) ==
    CHOOSE a \in 1..(Len(ks) + Cardinality(HeldAddrs) + 1) :
        /\ a \notin HeldAddrs
        /\ \A i \in 1..Len(ks) : ks[i].addr # a
        /\ \A b \in 1..(a - 1) : b \in HeldAddrs \/ \E i \in 1..Len(ks) : ks[i].addr = b

\* The list updateKeys (and NewKeyManager) builds from the loaded rows.
ManagedKeysOf(d) ==
    LET rows == LoadActiveGeminiKeys(d) IN
    [i \in 1..Len(rows) |-> NewManagedKey(NthFreeAddr(i, 1), rows[i], d[rows[i]])]

\* What the goroutines of CheckAllKeysHealth that have not answered yet will
\* read through their pointers once the list ks is dropped: the Disabled flag
\* each old object keeps from then on.
Detached(ps, ks) ==
    {IF p.kind = "health" /\ p.phase = "probe"
     THEN [p EXCEPT !.phase =
             IF \E i \in 1..Len(ks) : ks[i].addr = p.addr /\ ks[i].Disabled
             THEN "probe, old and disabled" ELSE "probe, old and enabled"]
     ELSE p : p \in ps}

\* KeyManager.updateKeys, run by keyReloader on its one-minute ticker: the
\* list is replaced by fresh entries for the active rows.
updateKeys ==
    /\ reloader = "running"
    /\ keys' = ManagedKeysOf(db)
    /\ probes' = Detached(probes, keys)
    /\ Did("updateKeys", NoKey, TRUE)
    /\ UNCHANGED <<db, db0, updateQueue, closed, worker, reloader, closeRet,
                   writes, selected, dropped, tripped, streak, req, proc,
                   edgeVars>>

\* KeyManager.keyReloader: one tick of the ticker, among the operations the
\* budget counts.
keyReloader == Spend /\ updateKeys

\* keyReloader returns once it sees stopChan closed.
ReloaderStops ==
    /\ closed
    /\ reloader = "running"
    /\ reloader' = "stopped"
    /\ Did("ReloaderStops", NoKey, TRUE)
    /\ UNCHANGED <<keys, db, db0, updateQueue, closed, worker, closeRet, writes,
                   selected, dropped, tripped, streak, budget, probes, req, proc,
                   edgeVars>>

\* A goroutine spawned by HandleKeyFailure / HandleKeySuccess saves its copy
\* of the row.
WriteLands(w) ==
    /\ w \in writes
    /\ db' = UpdateGeminiKey(db, w)
    /\ writes' = writes \ {w}
    /\ Did("UpdateGeminiKey", w.ID, TRUE)
    /\ UNCHANGED <<keys, db0, updateQueue, closed, worker, reloader, closeRet,
                   selected, dropped, tripped, streak, budget, probes, req, proc,
                   edgeVars>>

\* usageUpdater: one iteration of "for keyStr := range km.updateQueue".
usageUpdater ==
    /\ worker = "running"
    /\ updateQueue # <<>>
    /\ db' = IncrementGeminiKeyUsageCount(db, Head(updateQueue))
    /\ updateQueue' = Tail(updateQueue)
    /\ Did("usageUpdater", Head(updateQueue), TRUE)
    /\ UNCHANGED <<keys, db0, closed, worker, reloader, closeRet, writes,
                   selected, dropped, tripped, streak, budget, probes, req, proc,
                   edgeVars>>

\* A mutation of usageUpdaterExits: the worker leaves as soon as the queue
\* is closed, whatever is still in it.
usageUpdaterExitsUndrained ==
    /\ worker = "running"
    /\ closed
    /\ worker' = "stopped"
    /\ Did("usageUpdaterExits", NoKey, TRUE)
    /\ UNCHANGED <<keys, db, db0, updateQueue, closed, reloader, closeRet, writes,
                   selected, dropped, tripped, streak, budget, probes, req, proc,
                   edgeVars>>

\* usageUpdater leaves its loop: the queue is closed and drained.
usageUpdaterExits ==
    /\ worker = "running"
    /\ closed
    /\ updateQueue = <<>>
    /\ worker' = "stopped"
    /\ Did("usageUpdaterExits", NoKey, TRUE)
    /\ UNCHANGED <<keys, db, db0, updateQueue, closed, reloader, closeRet, writes,
                   selected, dropped, tripped, streak, budget, probes, req, proc,
                   edgeVars>>

\* Time passes: the cooldown (km.revivalInterval) of a disabled entry runs out.
CooldownElapses(i) ==
    /\ i \in 1..Len(keys)
    /\ keys[i].Disabled
    /\ keys[i].DisabledAt = "now"
    /\ keys' = [keys EXCEPT ![i].DisabledAt = "past"]
    /\ Did("CooldownElapses", keys[i].ID, TRUE)
    /\ UNCHANGED <<db, db0, updateQueue, closed, worker, reloader, closeRet, writes,
                   selected, dropped, tripped, streak, budget, probes, req, proc,
                   edgeVars>>

\* The entries ReviveDisabledKeys collects under the mutex: disabled, and
\* time.Since(DisabledAt) > revivalInterval.
Revivable(ks) == {i \in 1..Len(ks) : ks[i].Disabled /\ ks[i].DisabledAt = "past"}

\* KeyManager.ReviveDisabledKeys, started by the scheduler: one probing
\* goroutine per collected entry, each holding the entry's pointer.
ReviveDisabledKeys ==
    /\ probes' = probes \cup
          {[kind |-> "revive", addr |-> keys[i].addr, key |-> keys[i].ID,
            phase |-> "probe"] : i \in Revivable(keys)}
    /\ Did("ReviveDisabledKeys", NoKey, Revivable(keys) # {})
    /\ UNCHANGED <<keys, db, db0, updateQueue, closed, worker, reloader, closeRet,
                   writes, selected, dropped, tripped, streak, req, proc,
                   edgeVars>>

\* Scheduler.runKeyRevivalJob: one run of the cron job, among the operations
\* the budget counts.
runKeyRevivalJob == Spend /\ ReviveDisabledKeys


\* A failed probe that leaves the revival timer as it was.
KeepDisabledAt(ks, a) == ks

\* key.DisabledAt = time.Now() through the goroutine's pointer: the entry at
\* that address if it is still in the list, no entry of the list otherwise.
TouchDisabledAt(ks, a) ==
    [i \in 1..Len(ks) |->
        IF ks[i].addr = a THEN [ks[i] EXCEPT !.DisabledAt = "now"] ELSE ks[i]]

\* A goroutine of ReviveDisabledKeys gets the answer of testAPIKey: HTTP 200
\* (ok) or anything else.
ReviveProbeDone(p, ok) ==
    /\ p \in probes
    /\ p.kind = "revive"
    /\ probes' = probes \ {p}
    /\ IF ok
       THEN /\ HandleKeySuccess(p.key)
            /\ HistAfterSuccess(p.key)
       ELSE /\ keys' = TouchDisabledAt(keys, p.addr)
            /\ UNCHANGED <<writes, tripped, streak>>
    /\ Did("ReviveProbe", p.key, ok)
    /\ UNCHANGED <<db, db0, updateQueue, closed, worker, reloader, closeRet,
                   selected, dropped, budget, req, proc, edgeVars>>

\* KeyManager.TestKeyByID up to the probe: findKeyByID; an id that is not in
\* the list is fetched from the store next.
TestKeyByID(id) ==
    /\ Spend
    /\ probes' = probes \cup
          {[kind |-> "test", addr |-> 0, key |-> id,
            phase |-> IF \E i \in 1..Len(keys) : keys[i].ID = id
                      THEN "probe" ELSE "fetch"]}
    /\ Did("TestKeyByID", id, TRUE)
    /\ UNCHANGED <<keys, db, db0, updateQueue, closed, worker, reloader, closeRet,
                   writes, selected, dropped, tripped, streak, req, proc,
                   edgeVars>>

\* TestKeyByID: db.GetGeminiKey(id). A row that exists is appended to the list
\* as a fresh managedKey holding the row as the store has it; for an id the
\* store does not have, TestKeyByID returns the error at once.
TestKeyFetch(p) ==
    /\ p \in probes
    /\ p.kind = "test"
    /\ p.phase = "fetch"
    /\ IF p.key \in KeyIds
       THEN /\ keys' = Append(keys, NewManagedKey(FreshAddr(keys), p.key, db[p.key]))
            /\ probes' = (probes \ {p}) \cup {[p EXCEPT !.phase = "probe"]}
            /\ Did("TestKeyFetch", p.key, TRUE)
       ELSE /\ keys' = keys
            /\ probes' = probes \ {p}
            /\ Did("TestKeyByIDNotFound", p.key, FALSE)
    /\ UNCHANGED <<db, db0, updateQueue, closed, worker, reloader, closeRet, writes,
                   selected, dropped, tripped, streak, budget, req, proc,
                   edgeVars>>

\* A TestKeyByID that returns nil whatever the probe answered.
ReturnsNilAlways(ok) == TRUE

\* Whether TestKeyByID returns nil, given whether testAPIKey returned nil.
ReturnsNil(ok) == ok

\* TestKeyByID after testAPIKey: HandleKeyFailure and the error, or
\* HandleKeySuccess and nil.
TestProbeDone(p, ok) ==
    /\ p \in probes
    /\ p.kind = "test"
    /\ p.phase = "probe"
    /\ probes' = probes \ {p}
    /\ IF ok
       THEN /\ HandleKeySuccess(p.key)
            /\ HistAfterSuccess(p.key)
       ELSE /\ CanFail(p.key)
            /\ HandleKeyFailure(p.key)
            /\ HistAfterFailure(p.key)
    /\ Did("TestKeyByIDReturns", p.key, ReturnsNil(ok))
    /\ UNCHANGED <<db, db0, updateQueue, closed, worker, reloader, closeRet,
                   selected, dropped, budget, req, proc, edgeVars>>

\* KeyManager.CheckAllKeysHealth, started by the scheduler's daily job: the
\* list is copied under the mutex and one goroutine per entry probes its key.
CheckAllKeysHealth ==
    /\ Spend
    /\ probes' = probes \cup
          {[kind |-> "health", addr |-> keys[i].addr, key |-> keys[i].ID,
            phase |-> "probe"] : i \in 1..Len(keys)}
    /\ Did("CheckAllKeysHealth", NoKey, TRUE)
    /\ UNCHANGED <<keys, db, db0, updateQueue, closed, worker, reloader, closeRet,
                   writes, selected, dropped, tripped, streak, req, proc,
                   edgeVars>>

\* key.Disabled as a goroutine of CheckAllKeysHealth reads it through its
\* pointer, without the mutex: the flag of the entry if it is still in the
\* list, the flag the old object kept otherwise.
DisabledSeenBy(p) ==
    IF p.phase = "probe"
    THEN \E i \in 1..Len(keys) : keys[i].addr = p.addr /\ keys[i].Disabled
    ELSE p.phase = "probe, old and disabled"

\* A goroutine of CheckAllKeysHealth gets the answer of testAPIKey and reads
\* key.Disabled: a failing key that is not disabled goes on to be disabled, a
\* working key that is disabled is re-activated through HandleKeySuccess.
HealthProbeDone(p, ok) ==
    /\ p \in probes
    /\ p.kind = "health"
    /\ p.phase \in {"probe", "probe, old and disabled", "probe, old and enabled"}
    /\ IF ok /\ DisabledSeenBy(p)
       THEN /\ HandleKeySuccess(p.key)
            /\ HistAfterSuccess(p.key)
       ELSE UNCHANGED <<keys, writes, tripped, streak>>
    /\ probes' = IF ~ok /\ ~DisabledSeenBy(p)
                 THEN (probes \ {p}) \cup {[p EXCEPT !.phase = "set"]}
                 ELSE probes \ {p}
    /\ Did("HealthProbe", p.key, ok)
    /\ UNCHANGED <<db, db0, updateQueue, closed, worker, reloader, closeRet,
                   selected, dropped, budget, req, proc, edgeVars>>

\* key.FailureCount = km.disableThreshold - 1 through the goroutine's
\* pointer: the entry at that address if it is still in the list.
SetFailureCount(ks, a) ==
    [i \in 1..Len(ks) |->
        IF ks[i].addr = a
        THEN [ks[i] EXCEPT !.FailureCount = disableThreshold - 1] ELSE ks[i]]

\* The goroutine takes the mutex, sets the count and releases the mutex.
HealthSetsCount(p) ==
    /\ p \in probes
    /\ p.kind = "health"
    /\ p.phase = "set"
    /\ keys' = SetFailureCount(keys, p.addr)
    /\ probes' = (probes \ {p}) \cup {[p EXCEPT !.phase = "report"]}
    /\ Did("HealthSetsCount", p.key, TRUE)
    /\ UNCHANGED <<db, db0, updateQueue, closed, worker, reloader, closeRet, writes,
                   selected, dropped, tripped, streak, budget, req, proc,
                   edgeVars>>

\* The goroutine calls km.HandleKeyFailure(key.Key), which takes the mutex
\* again and looks the key up in the list as it now is.
HealthReportsFailure(p) ==
    /\ p \in probes
    /\ p.kind = "health"
    /\ p.phase = "report"
    /\ CanFail(p.key)
    /\ HandleKeyFailure(p.key)
    /\ HistAfterFailure(p.key)
    /\ probes' = probes \ {p}
    /\ Did("HealthReportsFailure", p.key, TRUE)
    /\ UNCHANGED <<db, db0, updateQueue, closed, worker, reloader, closeRet,
                   selected, dropped, budget, req, proc, edgeVars>>

\* admin.UpdateGeminiKeyHandler with a status: the row is read, its status
\* replaced, and the whole row saved.
UpdateGeminiKeyHandler(id, status) ==
    /\ Spend
    /\ id \in KeyIds
    /\ writes' = writes \cup
          {[ID |-> id, Status |-> status, FailureCount |-> db[id].FailureCount,
            UsageCount |-> db[id].UsageCount]}
    /\ Did("UpdateGeminiKeyHandler", id, TRUE)
    /\ UNCHANGED <<keys, db, db0, updateQueue, closed, worker, reloader, closeRet,
                   selected, dropped, tripped, streak, probes, req, proc,
                   edgeVars>>

\* KeyManager.Close: close(stopChan); close(updateQueue).
Close ==
    /\ Spend
    /\ ~closed
    /\ closed' = TRUE
    /\ Did("Close", NoKey, TRUE)
    /\ UNCHANGED <<keys, db, db0, updateQueue, worker, reloader, closeRet, writes,
                   selected, dropped, tripped, streak, probes, req, proc,
                   edgeVars>>

\* KeyManager.Close: km.wg.Wait() returns when usageUpdater has exited.
CloseReturns ==
    /\ closed
    /\ worker = "stopped"
    /\ ~closeRet
    /\ closeRet' = TRUE
    /\ Did("CloseReturns", NoKey, TRUE)
    /\ UNCHANGED <<keys, db, db0, updateQueue, closed, worker, reloader, writes,
                   selected, dropped, tripped, streak, budget, probes, req, proc,
                   edgeVars>>

\* ------------------------------------------------- the compat proxy request

\* What the upstream can answer to one attempt: a response with a status, a
\* transport error, or the error of a request whose context was cancelled.
UpstreamStatuses == {200, 400, 404, 401, 403, 429, 500, 502, 503}

NoOutcome == [err |-> "none", status |-> 0]

Outcomes ==
    {[err |-> "none", status |-> st] : st \in UpstreamStatuses}
    \cup {[err |-> e, status |-> 0] : e \in {"net", "canceled"}}

\* A mutation of isRetryableStatusCode: every error status is retried.
isRetryableAnyError(code) == code >= 400

isRetryableStatusCode(code) == code \in {401, 403, 429, 500, 502, 503}

\* The three branches of the loop body of RoundTrip.
Classify(out) ==
    IF out.err = "none" /\ out.status < 400 THEN "success"
    ELSE IF out.err = "none" /\ ~isRetryableStatusCode(out.status) THEN "passthrough"
    ELSE "retryable"

\* A mutation of AttemptLimit: no cap at maxRetryAttempts.
AttemptLimitUncapped(n) == n

\* numAttempts of RoundTrip.
AttemptLimit(n) == IF n > maxRetryAttempts THEN maxRetryAttempts ELSE n

\* A mutation of Rebind: the context gets the new key, the header keeps
\* the old one.
RebindContextOnly(r, nextKey) == [r EXCEPT !.ctxKey = nextKey]

\* The request for the next attempt: context value and Authorization header.
Rebind(r, nextKey) == [r EXCEPT !.ctxKey = nextKey, !.auth = nextKey]

\* A mutation of ErrorHandler: cancellation is answered like any error.
ErrorHandlerAlways503(r, err) ==
    [r EXCEPT !.pc = "done", !.status = 503,
              !.body = "Service unavailable after multiple retries"]

\* ReverseProxy.ErrorHandler: nothing is written for a cancelled request,
\* 503 for every other error.
ErrorHandler(r, err) ==
    IF err = "canceled"
    THEN [r EXCEPT !.pc = "done"]
    ELSE [r EXCEPT !.pc = "done", !.status = 503,
                   !.body = "Service unavailable after multiple retries"]

\* ReverseProxy copies the upstream's response to the client.
CopyResponse(r, out) ==
    [r EXCEPT !.pc = "done", !.status = out.status, !.body = "upstream"]

\* A request body: nothing, bytes that are not JSON, or a JSON object with
\* the names of its fields that have a value, the names of its fields that
\* are null, and its "model" string ("" when the field is absent).
NoBody ==
    [kind |-> "none", fields |-> {}, nulls |-> {}, model |-> "",
     seed |-> [hi |-> 0, lo |-> 0], canonical |-> TRUE, length |-> 0]

\* A body of no bytes.
EmptyBody == [NoBody EXCEPT !.kind = "empty"]

TextBody == [NoBody EXCEPT !.kind = "text", !.length = 1]

fieldsToRemove ==
    {"frequency_penalty", "presence_penalty", "logit_bias", "logprobs",
     "top_logprobs", "reasoning_effort", "max_completion_tokens", "n", "tools",
     "function_call", "functions"}

\* strings.TrimPrefix(model, "models/") on the model names of the model.
TrimModelsPrefix(m) == IF m = "models/gemini" THEN "gemini" ELSE m

\* The integer hi * 2^53 + lo, the value of the "seed" field, as
\* json.Unmarshal into interface{} decodes it: a float64.  Integers below
\* 2^53 are exact; from 2^53 on the float64 values are the even integers,
\* and an odd one goes to the neighbour whose mantissa is even.
Float64(v) ==
    IF v.hi = 0 \/ v.lo % 2 = 0 THEN v
    ELSE [v EXCEPT !.lo = IF (v.lo - 1) % 4 = 0 THEN v.lo - 1 ELSE v.lo + 1]

\* The byte length of a body, in units: the braces, one unit per field, the
\* seven bytes of "models/", the further digits of a seed from 2^53 on, and
\* the white space of a body that is not laid out as json.Marshal does.
ByteLength(b) ==
    IF b.kind \in {"none", "empty"} THEN 0
    ELSE IF b.kind = "text" THEN 1
    ELSE 2 + Cardinality(b.fields) + Cardinality(b.nulls)
           + (IF b.model = "models/gemini" THEN 7 ELSE 0)
           + (IF "seed" \in b.fields /\ b.seed.hi = 1 THEN 15 ELSE 0)
           + (IF b.canonical THEN 0 ELSE 1)

\* modified: a listed field or top_k is present (with a value or null), a
\* field is null, or the model carries the prefix.
Modified(b) ==
    \/ (b.fields \cup b.nulls) \cap (fieldsToRemove \cup {"top_k"}) # {}
    \/ b.nulls # {}
    \/ b.model # TrimModelsPrefix(b.model)

\* json.Marshal of the map left after the deletions: the numbers are the
\* float64 values Unmarshal produced, the layout is Marshal's.
Marshal(b) ==
    LET m == [b EXCEPT !.fields = (@ \ fieldsToRemove) \ {"top_k"},
                       !.nulls = {},
                       !.model = TrimModelsPrefix(@),
                       !.seed = IF "seed" \in b.fields THEN Float64(@) ELSE @,
                       !.canonical = TRUE]
    IN  [m EXCEPT !.length = ByteLength(m)]

\* OpenAIProxy.ModifyRequestBody: the body the Director leaves in req.Body,
\* with req.ContentLength.  A body that is nil, empty or not a JSON object,
\* or that needs no change, keeps its bytes and its length.
ModifyRequestBody(b) ==
    IF b.kind # "json" THEN b
    ELSE IF ~Modified(b) THEN b
    ELSE Marshal(b)

\* What is left in req.Body (a bytes.Buffer behind io.NopCloser, with no
\* GetBody) after an attempt: nothing once the request was written to the
\* upstream; after a transport error the body may not have been read.
BodyLeft(b, out) == IF out.err = "none" THEN {NoBody} ELSE {b, NoBody}

\* customRecovery: a panic in the handler (the send on the closed
\* updateQueue) is answered with 500.
customRecovery(r) == [r EXCEPT !.pc = "done", !.status = 500, !.end = "panic"]

\* A path is the sequence of its characters.
V1Prefix == <<"/", "v", "1">>

CompatPrefix ==
    <<"/", "v", "1", "b", "e", "t", "a", "/", "o", "p", "e", "n", "a", "i">>

\* strings.HasPrefix.
HasPrefix(s, prefix) ==
    /\ Len(s) >= Len(prefix)
    /\ SubSeq(s, 1, Len(prefix)) = prefix

\* strings.TrimPrefix: s without the leading prefix, or s itself.
TrimPrefix(s, prefix) ==
    IF HasPrefix(s, prefix) THEN SubSeq(s, Len(prefix) + 1, Len(s)) ELSE s

\* The Director's path: "/v1beta/openai" + TrimPrefix(path, "/v1").
DirectorPath(path) == CompatPrefix \o TrimPrefix(path, V1Prefix)

\* OpenAIProxy.ServeHTTP up to the transport: GetNextKey, the key into the
\* context, and the Director's path, Authorization header and body.
ServeHTTP ==
    /\ req.pc = "idle"
    /\ \E res \in KeyIds \cup {NoKey} :
        /\ GetNextKey(res)
        /\ req' = IF SendPanics
                  THEN customRecovery(req)
                  ELSE IF res = NoKey
                  THEN [req EXCEPT !.pc = "done", !.status = 503,
                                   !.body = "Service temporarily unavailable",
                                   !.end = "nokey at start"]
                  ELSE [req EXCEPT !.pc = "transport", !.ctxKey = res, !.auth = res,
                                   !.fetched = 1,
                                   !.path = DirectorPath(req.clientPath),
                                   !.reqBody = ModifyRequestBody(req.clientBody)]
        /\ Did("ServeHTTP", res, res # NoKey)
    /\ UNCHANGED <<db, db0, closed, worker, reloader, closeRet, writes, tripped,
                   streak, budget, probes, proc, edgeVars>>

\* retryingTransport.RoundTrip up to the first attempt: the attempt limit is
\* fixed from the count of enabled keys; the first request goes out.
RoundTripBegins ==
    /\ req.pc = "transport"
    /\ LET n == GetAvailableKeyCount(keys)
           r == [req EXCEPT !.numAvailable = n, !.numAttempts = AttemptLimit(n)] IN
       req' = IF AttemptLimit(n) = 0
              THEN ErrorHandler([r EXCEPT !.end = "no attempt"], "other")
              ELSE [r EXCEPT !.pc = "sent", !.sent = 1, !.wire = req.reqBody,
                             !.first = req.reqBody]
    /\ Did("RoundTrip", req.ctxKey, TRUE)
    /\ UNCHANGED <<keys, db, db0, updateQueue, closed, worker, reloader, closeRet,
                   writes, selected, dropped, tripped, streak, budget, probes, proc,
                   edgeVars>>

\* A loop that never takes an attempt for its last.
LastAttemptNever(r) == FALSE

\* "if i == numAttempts-1": the attempt that failed was the last one.
LastAttempt(r) == r.i = r.numAttempts - 1

\* The loop body of RoundTrip after rt.transport.RoundTrip returned out.
AttemptReturns(out) ==
    /\ req.pc = "sent"
    /\ req.lastErr = "canceled" => out.err = "canceled"
    /\ \E left \in BodyLeft(req.reqBody, out) :
       LET key == req.ctxKey
           r == [req EXCEPT !.outcome = out, !.reqBody = left] IN
       CASE Classify(out) = "success" ->
              /\ HandleKeySuccess(key)
              /\ HistAfterSuccess(key)
              /\ req' = CopyResponse(
                           [r EXCEPT !.end = "success", !.nSucc = @ + 1,
                                     !.report = [kind |-> "success", key |-> key]], out)
         [] Classify(out) = "passthrough" ->
              /\ req' = CopyResponse([r EXCEPT !.end = "passthrough"], out)
              /\ UNCHANGED <<keys, writes, tripped, streak>>
         [] OTHER ->
              /\ CanFail(key)
              /\ HandleKeyFailure(key)
              /\ HistAfterFailure(key)
              /\ LET err == IF out.err = "canceled" THEN "canceled" ELSE "other"
                     f == [r EXCEPT !.lastErr = err, !.nFail = @ + 1,
                                    !.report = [kind |-> "failure", key |-> key]] IN
                 req' = IF LastAttempt(req)
                        THEN ErrorHandler([f EXCEPT !.end = "exhausted"], err)
                        ELSE [f EXCEPT !.pc = "retry"]
    /\ Did("AttemptReturns", req.ctxKey, Classify(out) = "success")
    /\ UNCHANGED <<db, db0, updateQueue, closed, worker, reloader, closeRet,
                   selected, dropped, budget, probes, proc, edgeVars>>

\* RoundTrip between two attempts: GetNextKey, the new key bound into the
\* request, and the next request sent if the loop goes on ("i < numAttempts";
\* "all retries failed" after the loop).
NextAttempt ==
    /\ req.pc = "retry"
    /\ \E res \in KeyIds \cup {NoKey} :
        /\ GetNextKey(res)
        /\ req' = IF SendPanics
                  THEN customRecovery(req)
                  ELSE IF res = NoKey
                  THEN ErrorHandler([req EXCEPT !.end = "nokey"], req.lastErr)
                  ELSE IF req.i + 1 < req.numAttempts
                  THEN Rebind([req EXCEPT !.pc = "sent", !.i = @ + 1, !.sent = @ + 1,
                                          !.fetched = @ + 1,
                                          !.outcome = NoOutcome,
                                          !.wire = req.reqBody], res)
                  ELSE ErrorHandler(
                         Rebind([req EXCEPT !.i = @ + 1, !.fetched = @ + 1,
                                            !.end = "loop ends"], res),
                         req.lastErr)
        /\ Did("NextAttempt", res, res # NoKey)
    /\ UNCHANGED <<db, db0, closed, worker, reloader, closeRet, writes, tripped,
                   streak, budget, probes, proc, edgeVars>>

\* ---------------------------------------------------------- AuthMiddleware

NumTokens == 2
MaxTime == 2

\* The empty string as a token, and the zero time.Time.
EmptyToken == 0
ZeroTime == 0

\* The client tokens requests may carry.
Tokens == 1..NumTokens

\* The rows of the api_keys table, and the absence of a row for a token.
APIKeyRows ==
    [Status : {"active", "revoked"}, ExpiresAt : 0..MaxTime, UsageCount : {0}]

NoRow == [Status |-> "none", ExpiresAt |-> ZeroTime, UsageCount |-> 0]

\* The Authorization header as strings.Split(authHeader, " ") sees it: the
\* number n of parts (0 for an absent header), the first part and the second.
AuthorizationHeaders ==
    {[n |-> 0, scheme |-> "", token |-> EmptyToken]}
    \cup {h \in [n : {1, 2, 3}, scheme : {"Bearer", "Basic"},
                 token : Tokens \cup {EmptyToken}] :
            h.n = 1 => h.token = EmptyToken}

\* The OpenAI-style token: the second part of a two-part Bearer header.
BearerToken(h) ==
    IF h.n = 2 /\ h.scheme = "Bearer" THEN h.token ELSE EmptyToken

\* The token AuthMiddleware looks up: the Bearer token, else x-goog-api-key.
TokenOf(h, goog) ==
    IF BearerToken(h) # EmptyToken THEN BearerToken(h) ELSE goog

\* A check of the expiry that lets every key through.
ExpiredNever(row, now) == FALSE

\* !apiKey.ExpiresAt.IsZero() && apiKey.ExpiresAt.Before(time.Now())
Expired(row, now) == row.ExpiresAt # ZeroTime /\ row.ExpiresAt < now

\* The status AuthMiddleware aborts with, or 0 when it calls c.Next().
Decision(token, lookupFails, row, now) ==
    IF token = EmptyToken THEN 401
    ELSE IF lookupFails THEN 500
    ELSE IF row = NoRow THEN 401
    ELSE IF row.Status # "active" THEN 403
    ELSE IF Expired(row, now) THEN 403
    ELSE 0

\* No request is at the middleware.
IdleAuth ==
    [pc |-> "idle", authorization |-> [n |-> 0, scheme |-> "", token |-> EmptyToken],
     goog |-> EmptyToken, store |-> [t \in Tokens |-> NoRow], now |-> ZeroTime,
     lookup |-> "none", status |-> 0, next |-> FALSE, pending |-> EmptyToken]

\* The values of scheduler.key_revival_interval: unset, or a cron spec.
KeyRevivalIntervals == {"", "@every 5m"}

\* The entries Scheduler.Start hands to cron.AddFunc.
StartedEntries(interval) ==
    {[schedule |-> IF interval # "" THEN interval ELSE "@every 10m",
      job |-> "runKeyRevivalJob"],
     [schedule |-> "@daily", job |-> "runDailyHealthCheckJob"]}

\* NewScheduler: cron.New() with no job wrapper, no entry yet.
NewScheduler(interval) ==
    [started |-> FALSE, interval |-> interval, entries |-> {}]

\* The scheduler as main leaves it: started, with the default interval.
RunningScheduler ==
    [started |-> TRUE, interval |-> "", entries |-> StartedEntries("")]

\* ------------------------------------------- the native protocol balancer

\* The balancer's own copy of a row: model.GeminiKey.
BalancerKey(d, id) == [ID |-> id, UsageCount |-> d[id].UsageCount]

\* The keys a balancer loads: the active rows, usage_count ascending.
BalancerKeys(d) ==
    [i \in 1..Len(LoadActiveGeminiKeys(d)) |->
        BalancerKey(d, LoadActiveGeminiKeys(d)[i])]

\* No balancer of the native protocol has been built.
IdleNative ==
    [pc |-> "idle", keys |-> <<>>, queue |-> <<>>, key |-> NoKey,
     attempts |-> 0, err |-> "none", status |-> 0]

\* NewBalancer, and a request arriving at it.
NewBalancer(d) ==
    [IdleNative EXCEPT !.pc = "received", !.keys = BalancerKeys(d)]

\* proxy.ErrorHandler: nothing is written for a client that went away,
\* and 502 for every other error.
NativeErrorHandler(err) ==
    IF err = "canceled" THEN 0 ELSE 502

\* Balancer.ServeHTTP: 503 when the pool is empty, the reverse proxy
\* otherwise.
BalancerServeHTTP ==
    /\ native.pc = "received"
    /\ native' = IF Len(native.keys) = 0
                 THEN [native EXCEPT !.pc = "done", !.status = 503]
                 ELSE [native EXCEPT !.pc = "proxying"]
    /\ Did("Balancer.ServeHTTP", NoKey, Len(native.keys) # 0)
    /\ UNCHANGED <<keys, db, db0, updateQueue, closed, worker, reloader, closeRet,
                   writes, selected, dropped, tripped, streak, budget, probes,
                   req, proc, auth, cron>>

\* Balancer.getNextKey as the Director calls it: "" for an empty pool;
\* otherwise the first key, its count incremented, the pool sorted again
\* and the key queued for the usage worker unless the queue is full.  With
\* no key the Director returns before it sets the scheme and the host.
Director ==
    /\ native.pc = "proxying"
    /\ native' =
          IF Len(native.keys) = 0
          THEN [native EXCEPT !.pc = "directed", !.key = NoKey]
          ELSE [native EXCEPT
                  !.pc = "directed",
                  !.key = native.keys[1].ID,
                  !.keys = sortKeys([native.keys EXCEPT ![1].UsageCount = @ + 1]),
                  !.queue = IF QueueHasRoom(native.queue)
                            THEN Append(native.queue, native.keys[1].ID)
                            ELSE native.queue]
    /\ Did("Balancer.getNextKey", native'.key, native'.key # NoKey)
    /\ UNCHANGED <<keys, db, db0, updateQueue, closed, worker, reloader, closeRet,
                   writes, selected, dropped, tripped, streak, budget, probes,
                   req, proc, auth, cron>>

\* What the transport can return for the request the Director prepared.
\* A request without scheme and host fails in the transport before it is
\* sent ("unsupported protocol scheme").
NativeOutcomes ==
    IF native.key = NoKey THEN {[err |-> "transport", code |-> 0]}
    ELSE {[err |-> "none", code |-> c] : c \in UpstreamStatuses}
         \cup {[err |-> e, code |-> 0] : e \in {"transport", "canceled"}}

\* The single round trip of httputil.ReverseProxy: the response is copied
\* to the client, an error goes to the ErrorHandler.
BalancerRoundTrip(out) ==
    /\ native.pc = "directed"
    /\ out \in NativeOutcomes
    /\ native' = [native EXCEPT
          !.pc = "done",
          !.attempts = @ + 1,
          !.err = out.err,
          !.status = IF out.err = "none" THEN out.code
                     ELSE NativeErrorHandler(out.err)]
    /\ Did("Balancer.RoundTrip", native.key, out.err = "none")
    /\ UNCHANGED <<keys, db, db0, updateQueue, closed, worker, reloader, closeRet,
                   writes, selected, dropped, tripped, streak, budget, probes,
                   req, proc, auth, cron>>

\* Balancer.updateKeys (the keyReloader's tick): the pool is replaced by
\* the active rows.
BalancerUpdateKeys ==
    /\ native.pc # "idle"
    /\ Spend
    /\ native' = [native EXCEPT !.keys = BalancerKeys(db)]
    /\ Did("Balancer.updateKeys", NoKey, TRUE)
    /\ UNCHANGED <<keys, db, db0, updateQueue, closed, worker, reloader, closeRet,
                   writes, selected, dropped, tripped, streak, probes,
                   req, proc, auth, cron>>

\* Balancer.usageUpdater: one queued key is counted in the store.
BalancerUsageUpdater ==
    /\ native.queue # <<>>
    /\ native' = [native EXCEPT !.queue = Tail(@)]
    /\ db' = IncrementGeminiKeyUsageCount(db, Head(native.queue))
    /\ Did("Balancer.usageUpdater", Head(native.queue), TRUE)
    /\ UNCHANGED <<keys, db0, updateQueue, closed, worker, reloader, closeRet,
                   writes, selected, dropped, tripped, streak, budget, probes,
                   req, proc, auth, cron>>

\* No request is at the middleware and the scheduler runs.
EdgeIdle == auth = IdleAuth /\ cron = RunningScheduler /\ native = IdleNative

\* Scheduler.Start: the two AddFunc calls and c.Start().
SchedulerStart ==
    /\ ~cron.started
    /\ cron' = [cron EXCEPT !.started = TRUE,
                            !.entries = StartedEntries(cron.interval)]
    /\ Did("Scheduler.Start", NoKey, TRUE)
    /\ UNCHANGED <<keys, db, db0, updateQueue, closed, worker, reloader, closeRet,
                   writes, selected, dropped, tripped, streak, budget, probes,
                   req, proc, auth, native>>

\* A tick of an entry: cron starts the job in a goroutine of its own, whether
\* or not an earlier run of the entry has returned.
CronTick(e) ==
    /\ cron.started
    /\ e \in cron.entries
    /\ IF e.job = "runKeyRevivalJob" THEN runKeyRevivalJob
       ELSE CheckAllKeysHealth

\* AuthMiddleware on the request: the token, the lookup (which may fail with
\* an error of the store), the checks, and on success the goroutine that
\* will count the use.
AuthMiddleware ==
    /\ auth.pc = "received"
    /\ \E now \in 1..MaxTime, lookupFails \in BOOLEAN :
        LET token == TokenOf(auth.authorization, auth.goog)
            row == IF token = EmptyToken THEN NoRow ELSE auth.store[token]
            status == Decision(token, lookupFails, row, now)
        IN  /\ token = EmptyToken => ~lookupFails
            /\ auth' = [auth EXCEPT
                  !.pc = "done",
                  !.now = now,
                  !.lookup = IF token = EmptyToken THEN "none"
                             ELSE IF lookupFails THEN "error" ELSE "ok",
                  !.status = status,
                  !.next = (status = 0),
                  !.pending = IF status = 0 THEN token ELSE EmptyToken]
            /\ Did("AuthMiddleware", NoKey, status = 0)
    /\ UNCHANGED <<keys, db, db0, updateQueue, closed, worker, reloader, closeRet,
                   writes, selected, dropped, tripped, streak, budget, probes,
                   req, proc, cron, native>>

\* The goroutine of AuthMiddleware: db.IncrementAPIKeyUsageCount(token).
IncrementAPIKeyUsageCount ==
    /\ auth.pending # EmptyToken
    /\ auth' = [auth EXCEPT !.store[auth.pending].UsageCount = @ + 1,
                            !.pending = EmptyToken]
    /\ Did("IncrementAPIKeyUsageCount", NoKey, TRUE)
    /\ UNCHANGED <<keys, db, db0, updateQueue, closed, worker, reloader, closeRet,
                   writes, selected, dropped, tripped, streak, budget, probes,
                   req, proc, cron, native>>

\* ---------------------------------------------------------------- start-up

\* No client request is being tracked.
IdleRequest ==
    [pc |-> "idle", ctxKey |-> NoKey, auth |-> NoKey, numAvailable |-> 0,
     numAttempts |-> 0, i |-> 0, sent |-> 0, outcome |-> NoOutcome,
     lastErr |-> "none", report |-> [kind |-> "none", key |-> NoKey],
     nFail |-> 0, nSucc |-> 0, status |-> 0, body |-> "", end |-> "",
     clientBody |-> NoBody, reqBody |-> NoBody, wire |-> NoBody, first |-> NoBody,
     clientPath |-> <<>>, path |-> <<>>, fetched |-> 0]

\* setupAndRunServer after start-up: main waits for a signal, the server
\* accepts requests, the scheduler runs its jobs.
RunningProcess == [main |-> "serving", server |-> "accepting", sched |-> "running"]

\* The rows the store may hold when the manager starts.
InitRows ==
    [Status : {"active"}, FailureCount : {0}, UsageCount : 0..MaxInitUsage]
    \cup [Status : {"disabled"}, FailureCount : {disableThreshold}, UsageCount : {0}]

\* NewKeyManager: the pool is the store's active rows, in the store's order.
InitPool(d) ==
    LET rows == LoadActiveGeminiKeys(d) IN
    [i \in 1..Len(rows) |-> NewManagedKey(i, rows[i], d[rows[i]])]

\* The values of the status column.
Statuses == {"active", "disabled"}

InitManager(d, b, r) ==
    /\ budget = b
    /\ db = d
    /\ db0 = d
    /\ keys = InitPool(d)
    /\ updateQueue = <<>>
    /\ closed = FALSE
    /\ worker = "running"
    /\ reloader = "running"
    /\ closeRet = FALSE
    /\ writes = {}
    /\ selected = [k \in DOMAIN d |-> 0]
    /\ dropped = [k \in DOMAIN d |-> 0]
    /\ tripped = {}
    /\ streak = [k \in DOMAIN d |-> 0]
    /\ last = [op |-> "NewKeyManager", key |-> NoKey, ok |-> TRUE]
    /\ probes = {}
    /\ req = r
    /\ proc = RunningProcess

\* The start of the process with no request at the middleware.
InitWithRequest(d, b, r) == InitManager(d, b, r) /\ EdgeIdle

InitWith(d, b) == InitWithRequest(d, b, IdleRequest)

Init == \E d \in [1..NumKeys -> InitRows] : InitWith(d, MaxOps)

\* What callers and the manager's own goroutines do to the pool.
PoolSteps ==
    \/ Select
    \/ \E key \in KeyIds : ReportFailure(key)
    \/ \E key \in KeyIds : ReportSuccess(key)
    \/ keyReloader
    \/ \E w \in writes : WriteLands(w)
    \/ usageUpdater

\* The scheduler's revival job.
RevivalSteps ==
    \/ \E i \in 1..Len(keys) : CooldownElapses(i)
    \/ runKeyRevivalJob
    \/ \E p \in probes, ok \in BOOLEAN : ReviveProbeDone(p, ok)

\* The admin API: testing a key by id and changing a key's status.
AdminSteps ==
    \/ \E id \in KeyIds : TestKeyByID(id)
    \/ \E p \in probes : TestKeyFetch(p)
    \/ \E p \in probes, ok \in BOOLEAN : TestProbeDone(p, ok)
    \/ \E id \in KeyIds, status \in Statuses : UpdateGeminiKeyHandler(id, status)

\* The pool under failures, reloads and the revival job.
Next == PoolSteps \/ RevivalSteps

Spec == Init /\ [][Next]_vars

\* The pool with the admin API in use.
InitAdmin == \E d \in [1..NumKeys -> InitRows] : InitWith(d, MaxAdminOps)

NextAdmin == PoolSteps \/ AdminSteps

SpecAdmin == InitAdmin /\ [][NextAdmin]_vars

\* ------------------------------------------------------- selections only

\* An entry after disableThreshold failures in a row.
RECURSIVE FailTimes(_, _)
FailTimes(k, n) == IF n = 0 THEN k ELSE FailTimes(FailedKey(k), n - 1)

\* A pool some of whose keys (the set D) have failed disableThreshold times
\* since the load, with the rows of these failures saved.
InitSelect ==
    \E d \in [1..PoolSize -> [Status : {"active"}, FailureCount : {0},
                               UsageCount : 0..MaxInitUsage]] :
    \E D \in SUBSET (1..PoolSize) :
        /\ budget = MaxOps
        /\ keys = [i \in 1..PoolSize |->
                     IF InitPool(d)[i].ID \in D
                     THEN FailTimes(InitPool(d)[i], disableThreshold)
                     ELSE InitPool(d)[i]]
        /\ db = [id \in 1..PoolSize |->
                     IF id \in D
                     THEN [d[id] EXCEPT !.Status = "disabled",
                                        !.FailureCount = disableThreshold]
                     ELSE d[id]]
        /\ db0 = db
        /\ updateQueue = <<>>
        /\ closed = FALSE
        /\ worker = "running"
        /\ reloader = "running"
        /\ closeRet = FALSE
        /\ writes = {}
        /\ selected = [k \in 1..PoolSize |-> 0]
        /\ dropped = [k \in 1..PoolSize |-> 0]
        /\ tripped = D
        /\ streak = [k \in 1..PoolSize |-> IF k \in D THEN disableThreshold ELSE 0]
        /\ last = [op |-> "NewKeyManager", key |-> NoKey, ok |-> TRUE]
        /\ probes = {}
        /\ req = IdleRequest
        /\ proc = RunningProcess
        /\ EdgeIdle

NextSelect ==
    \/ Select
    \/ usageUpdater

SpecSelect == InitSelect /\ [][NextSelect]_vars

\* ------------------------------------------------------ one compat request

\* Pools of n keys: the first dis of them (none, one or all) disabled at the
\* threshold (rows saved), the others at failureCount fc, usage counts gap
\* apart.
ProxyRow(id, dis, fc, gap) ==
    IF id <= dis
    THEN [Status |-> "disabled", FailureCount |-> disableThreshold, UsageCount |-> 0]
    ELSE [Status |-> "active", FailureCount |-> fc, UsageCount |-> (id - 1) * gap]

ProxyEntry(addr, id, row) ==
    IF row.Status = "disabled"
    THEN [NewManagedKey(addr, id, row) EXCEPT !.Disabled = TRUE, !.DisabledAt = "now"]
    ELSE NewManagedKey(addr, id, row)

InitProxy ==
    \E n \in 0..MaxProxyKeys, fc \in {0, disableThreshold - 1}, gap \in 0..MaxUsageGap :
    \E dis \in {0, 1, n} \cap (0..n) :
        LET d == [id \in 1..n |-> ProxyRow(id, dis, fc, gap)] IN
        /\ budget = MaxProxyOps
        /\ db = d
        /\ db0 = d
        /\ keys = sortKeys([i \in 1..n |-> ProxyEntry(i, i, d[i])])
        /\ updateQueue = <<>>
        /\ closed = FALSE
        /\ worker = "running"
        /\ reloader = "running"
        /\ closeRet = FALSE
        /\ writes = {}
        /\ selected = [k \in 1..n |-> 0]
        /\ dropped = [k \in 1..n |-> 0]
        /\ tripped = 1..dis
        /\ streak = [k \in 1..n |-> IF k <= dis THEN disableThreshold ELSE 0]
        /\ last = [op |-> "NewKeyManager", key |-> NoKey, ok |-> TRUE]
        /\ probes = {}
        /\ req = IdleRequest
        /\ proc = RunningProcess
        /\ EdgeIdle

\* One client request through the compat proxy, and what other requests do
\* to the pool meanwhile.
NextProxy ==
    \/ ServeHTTP
    \/ RoundTripBegins
    \/ \E out \in Outcomes : AttemptReturns(out)
    \/ NextAttempt
    \/ Select
    \/ \E key \in KeyIds : ReportFailure(key)

SpecProxy == InitProxy /\ [][NextProxy]_vars

\* -------------------------------------------------------------- shutdown

\* Selections, the usage worker and the reloader, and the shutdown of the
\* manager.
NextShutdown ==
    \/ Select
    \/ usageUpdater
    \/ keyReloader
    \/ Close
    \/ ReloaderStops
    \/ usageUpdaterExits
    \/ CloseReturns

SpecShutdown == Init /\ [][NextShutdown]_vars

\* ------------------------------------- revival probes and reloads, shorter

MaxReloadOps == 4

\* Rows of a store whose keys have not been used yet.
UnusedRows == {r \in InitRows : r.UsageCount = 0}

InitReload == \E d \in [1..NumKeys -> UnusedRows] : InitWith(d, MaxReloadOps)

\* The steps of Spec, from fewer operations on keys that start unused.
SpecReload == InitReload /\ [][Next]_vars

\* ------------------------------------------------ the manual test of a key

MaxTestOps == 3

\* An id that no row of the store has.
UnknownId == NumKeys + 1

InitTest == \E d \in [1..NumKeys -> InitRows] : InitWith(d, MaxTestOps)

\* Manual tests of keys the store has and of one it does not have, among
\* reports of other requests, the reloader and the saves.
NextTest ==
    \/ \E id \in KeyIds \cup {UnknownId} : TestKeyByID(id)
    \/ \E p \in probes : TestKeyFetch(p)
    \/ \E p \in probes, ok \in BOOLEAN : TestProbeDone(p, ok)
    \/ \E key \in KeyIds : ReportFailure(key)
    \/ \E key \in KeyIds : ReportSuccess(key)
    \/ keyReloader
    \/ \E w \in writes : WriteLands(w)

SpecTest == InitTest /\ [][NextTest]_vars

\* ------------------------------------------------- the daily health check

MaxHealthOps == 3

InitHealth == \E d \in [1..NumKeys -> InitRows] : InitWith(d, MaxHealthOps)

\* The daily job and its goroutines, among reports of other requests, the
\* reloader and the saves.
NextHealth ==
    \/ CheckAllKeysHealth
    \/ \E p \in probes, ok \in BOOLEAN : HealthProbeDone(p, ok)
    \/ \E p \in probes : HealthSetsCount(p)
    \/ \E p \in probes : HealthReportsFailure(p)
    \/ \E key \in KeyIds : ReportFailure(key)
    \/ \E key \in KeyIds : ReportSuccess(key)
    \/ keyReloader
    \/ \E w \in writes : WriteLands(w)

SpecHealth == InitHealth /\ [][NextHealth]_vars

\* ---------------------------------------------- a compat request's body

\* The bodies a client sends.
ClientBodies ==
    {NoBody, TextBody}
    \cup {[b EXCEPT !.length = ByteLength(b)] :
            b \in [kind : {"json"}, fields : SUBSET {"messages", "n", "top_k"},
                   nulls : SUBSET {"stop"}, model : {"gemini", "models/gemini"},
                   seed : {NoBody.seed}, canonical : {TRUE}, length : {0}]}

InitBody ==
    \E d \in [1..NumKeys -> [Status : {"active"}, FailureCount : {0},
                              UsageCount : 0..MaxInitUsage]] :
    \E b \in ClientBodies :
        InitWithRequest(d, 0, [IdleRequest EXCEPT !.clientBody = b])

NextBody ==
    \/ ServeHTTP
    \/ RoundTripBegins
    \/ \E out \in Outcomes : AttemptReturns(out)
    \/ NextAttempt

SpecBody == InitBody /\ [][NextBody]_vars

\* ---------------------------------------------------- the sanitised body

\* Largest low part of a seed.
MaxSeedLow == 1

\* The values of a "seed" field: small integers, and integers from 2^53 on.
Seeds == [hi : 0..1, lo : 0..MaxSeedLow]

\* The bodies a client sends, with an accurate Content-Length: none, empty,
\* not JSON, or a JSON object in any layout, with or without a seed.
SentBodies ==
    {NoBody, EmptyBody, TextBody}
    \cup {[b EXCEPT !.length = ByteLength(b)] :
            b \in {x \in [kind : {"json"},
                          fields : SUBSET {"messages", "n", "top_k", "seed"},
                          nulls : SUBSET {"stop", "n"},
                          model : {"", "gemini", "models/gemini"},
                          seed : Seeds, canonical : BOOLEAN, length : {0}] :
                    /\ x.fields \cap x.nulls = {}
                    /\ "seed" \notin x.fields => x.seed = NoBody.seed}}

InitSanitise ==
    \E b \in SentBodies :
        InitWithRequest([id \in 1..NumKeys |->
                           [Status |-> "active", FailureCount |-> 0, UsageCount |-> 0]],
                        0, [IdleRequest EXCEPT !.clientBody = b])

SpecSanitise == InitSanitise /\ [][NextBody]_vars

\* ------------------------------------------------------ the request path

MaxPathLen == 2

PathChars == {"/", "m"}

\* What may follow a prefix: up to MaxPathLen characters.
PathTails == UNION {[1..n -> PathChars] : n \in 0..MaxPathLen}

\* The paths the router hands to the proxy (main strips "/openai"): with the
\* client's "/v1", with the upstream's "/v1beta/openai", or with neither.
ClientPaths ==
    {prefix \o tail : prefix \in {<<>>, V1Prefix, CompatPrefix}, tail \in PathTails}

InitPath ==
    \E d \in [1..NumKeys -> [Status : {"active"}, FailureCount : {0},
                              UsageCount : 0..MaxInitUsage]] :
    \E path \in ClientPaths :
        InitWithRequest(d, 0, [IdleRequest EXCEPT !.clientPath = path])

SpecPath == InitPath /\ [][NextBody]_vars

\* ------------------------------------------------- a request at the gate

\* A request with any headers arrives at AuthMiddleware, over any api_keys
\* table.
InitAuth ==
    \E h \in AuthorizationHeaders, g \in Tokens \cup {EmptyToken} :
    \E st \in [Tokens -> APIKeyRows \cup {NoRow}] :
        /\ InitManager([id \in 1..NumKeys |->
                          [Status |-> "active", FailureCount |-> 0, UsageCount |-> 0]],
                       0, IdleRequest)
        /\ auth = [IdleAuth EXCEPT !.pc = "received", !.authorization = h,
                                   !.goog = g, !.store = st]
        /\ cron = RunningScheduler
        /\ native = IdleNative

NextAuth ==
    \/ AuthMiddleware
    \/ IncrementAPIKeyUsageCount

SpecAuth == InitAuth /\ [][NextAuth]_vars

\* ---------------------------------------------------------- the scheduler

MaxCronOps == 2

InitCron ==
    \E d \in [1..NumKeys -> UnusedRows], interval \in KeyRevivalIntervals :
        /\ InitManager(d, MaxCronOps, IdleRequest)
        /\ auth = IdleAuth
        /\ cron = NewScheduler(interval)
        /\ native = IdleNative

\* The scheduler is started and its jobs tick, among failures of requests,
\* saves, cooldowns and the answers of the probes.
NextCron ==
    \/ SchedulerStart
    \/ \E e \in cron.entries : CronTick(e)
    \/ \E key \in KeyIds : ReportFailure(key)
    \/ \E w \in writes : WriteLands(w)
    \/ \E i \in 1..Len(keys) : CooldownElapses(i)
    \/ \E p \in probes, ok \in BOOLEAN : ReviveProbeDone(p, ok)
    \/ \E p \in probes, ok \in BOOLEAN : HealthProbeDone(p, ok)
    \/ \E p \in probes : HealthSetsCount(p)
    \/ \E p \in probes : HealthReportsFailure(p)

SpecCron == InitCron /\ [][NextCron]_vars

\* ------------------------------------------------------ reports and saves

MaxSaveOps == 3

InitSaves == \E d \in [1..NumKeys -> UnusedRows] : InitWith(d, MaxSaveOps)

\* Requests report failures and successes, and the goroutines they spawned
\* save their rows, each when it gets to run.
NextSaves ==
    \/ \E key \in KeyIds : ReportFailure(key)
    \/ \E key \in KeyIds : ReportSuccess(key)
    \/ \E w \in writes : WriteLands(w)

SpecSaves == InitSaves /\ [][NextSaves]_vars

\* ------------------------------------------- usage counts and row saves

\* Operations by callers in the behaviours where selections, reports, the
\* saves and the usage worker interleave up to Close.
MaxUsageOps == 4

InitUsage == \E d \in [1..NumKeys -> UnusedRows] : InitWith(d, MaxUsageOps)

\* A selection while the queue is open: the selections that return.
SelectBeforeClose == ~closed /\ Select

NextUsage ==
    \/ SelectBeforeClose
    \/ \E key \in KeyIds : ReportFailure(key)
    \/ \E key \in KeyIds : ReportSuccess(key)
    \/ \E w \in writes : WriteLands(w)
    \/ usageUpdater
    \/ Close
    \/ usageUpdaterExits
    \/ CloseReturns

SpecUsage == InitUsage /\ [][NextUsage]_vars

\* C38: with no increment dropped, once Close has returned and every save of
\* a row has landed, the stored usageCount of every key is its initial stored
\* value plus the number of times GetNextKey returned the key.
C38_UsageExactAfterClose ==
    (closeRet /\ writes = {} /\ \A k \in KeyIds : dropped[k] = 0) =>
        \A k \in KeyIds : db[k].UsageCount = db0[k].UsageCount + selected[k]

\* ------------------------------------------------- the store's failures

MaxStoreOps == 3

\* A row of the store in any state the admin API and the failures produce.
StoreRows ==
    [Status : Statuses, FailureCount : 0..disableThreshold, UsageCount : {0}]

InitStore ==
    \E d \in [1..NumKeys -> StoreRows] :
        /\ InitManager(d, MaxStoreOps, IdleRequest)
        /\ EdgeIdle

\* A caller reports a failure of a key to the store, with the configured
\* threshold; the key may be one the store does not hold.
StoreHandleFailure(key) ==
    /\ Spend
    /\ LET r == HandleGeminiKeyFailure(db, key, disableThreshold) IN
        /\ db' = r.db
        /\ Did(IF r.err THEN "HandleGeminiKeyFailureError"
               ELSE "HandleGeminiKeyFailure", key, r.disabled)
    /\ UNCHANGED <<keys, db0, updateQueue, closed, worker, reloader, closeRet,
                   writes, selected, dropped, tripped, streak, probes, req, proc,
                   edgeVars>>

NextStore == \E key \in KeyIds \cup {UnknownId} : StoreHandleFailure(key)

SpecStore == InitStore /\ [][NextStore]_vars

\* ------------------------------------------------ the native protocol

MaxNativeOps == 2

\* A balancer is built over any store and a request arrives at it.
InitNative ==
    \E d \in [1..NumKeys -> InitRows] :
        /\ InitManager(d, MaxNativeOps, IdleRequest)
        /\ auth = IdleAuth
        /\ cron = RunningScheduler
        /\ native = NewBalancer(d)

\* The request is served while the admin API changes rows, the balancer
\* reloads its pool and its usage worker runs.
NextNative ==
    \/ BalancerServeHTTP
    \/ Director
    \/ \E out \in NativeOutcomes : BalancerRoundTrip(out)
    \/ BalancerUpdateKeys
    \/ BalancerUsageUpdater
    \/ \E id \in KeyIds, status \in Statuses : UpdateGeminiKeyHandler(id, status)
    \/ \E w \in writes : WriteLands(w)

SpecNative == InitNative /\ [][NextNative]_vars

\* ------------------------------------------------------- process shutdown

\* The process has not exited.
Alive == proc.main # "exited"

\* The server accepts a compat request and runs its handler.
ServerServes ==
    /\ Alive
    /\ proc.server = "accepting"
    /\ ServeHTTP

\* The handler of the accepted request goes on.
HandlerContinues ==
    /\ Alive
    /\ \/ RoundTripBegins
       \/ \E out \in Outcomes : AttemptReturns(out)
       \/ NextAttempt

\* The scheduler fires the revival job.
SchedulerFires ==
    /\ Alive
    /\ proc.sched = "running"
    /\ runKeyRevivalJob

\* The manager's goroutines.
ManagerRuns ==
    /\ Alive
    /\ \/ usageUpdater
       \/ usageUpdaterExits
       \/ keyReloader
       \/ ReloaderStops

\* setupAndRunServer: the signal arrives and main calls keyManager.Close(),
\* which closes stopChan and updateQueue and then waits.
MainCallsClose ==
    /\ proc.main = "serving"
    /\ ~closed
    /\ closed' = TRUE
    /\ proc' = [proc EXCEPT !.main = "closing"]
    /\ Did("Close", NoKey, TRUE)
    /\ UNCHANGED <<keys, db, db0, updateQueue, worker, reloader, closeRet, writes,
                   selected, dropped, tripped, streak, budget, probes, req,
                   edgeVars>>

\* keyManager.Close() returns (wg.Wait), openaiProxy.Close() logs, and main
\* calls server.Shutdown: the server stops accepting.
MainCallsShutdown ==
    /\ proc.main = "closing"
    /\ worker = "stopped"
    /\ closeRet' = TRUE
    /\ proc' = [proc EXCEPT !.main = "shutting down", !.server = "stopped"]
    /\ Did("Shutdown", NoKey, TRUE)
    /\ UNCHANGED <<keys, db, db0, updateQueue, closed, worker, reloader, writes,
                   selected, dropped, tripped, streak, budget, probes, req,
                   edgeVars>>

\* server.Shutdown returns (the handlers are done, or the 5 seconds are
\* over) and the process exits; the scheduler was never stopped.
MainExits ==
    /\ proc.main = "shutting down"
    /\ proc' = [proc EXCEPT !.main = "exited"]
    /\ Did("exit", NoKey, TRUE)
    /\ UNCHANGED <<keys, db, db0, updateQueue, closed, worker, reloader, closeRet,
                   writes, selected, dropped, tripped, streak, budget, probes, req,
                   edgeVars>>

NextProcess ==
    \/ ServerServes
    \/ HandlerContinues
    \/ SchedulerFires
    \/ ManagerRuns
    \/ MainCallsClose
    \/ MainCallsShutdown
    \/ MainExits

SpecProcess == Init /\ [][NextProcess]_vars

\* ---------------------------------------------------- the revival job, fair

\* A pool in which the keys of D have just failed disableThreshold times:
\* disabled in memory, the save of the disabled row still on its way.
InitRevival ==
    \E d \in [1..NumKeys -> [Status : {"active"}, FailureCount : {0},
                              UsageCount : 0..MaxInitUsage]] :
    \E D \in (SUBSET (1..NumKeys)) \ {{}} :
        /\ budget = 0
        /\ keys = [i \in 1..NumKeys |->
                     IF InitPool(d)[i].ID \in D
                     THEN FailTimes(InitPool(d)[i], disableThreshold)
                     ELSE InitPool(d)[i]]
        /\ db = [id \in 1..NumKeys |->
                     IF id \in D
                     THEN [d[id] EXCEPT !.FailureCount = disableThreshold - 1]
                     ELSE d[id]]
        /\ db0 = db
        /\ writes = {[ID |-> id, Status |-> "disabled",
                      FailureCount |-> disableThreshold,
                      UsageCount |-> d[id].UsageCount] : id \in D}
        /\ updateQueue = <<>>
        /\ closed = FALSE
        /\ worker = "running"
        /\ reloader = "running"
        /\ closeRet = FALSE
        /\ selected = [k \in 1..NumKeys |-> 0]
        /\ dropped = [k \in 1..NumKeys |-> 0]
        /\ tripped = D
        /\ streak = [k \in 1..NumKeys |-> IF k \in D THEN disableThreshold ELSE 0]
        /\ last = [op |-> "HandleKeyFailure", key |-> CHOOSE k \in D : TRUE, ok |-> TRUE]
        /\ probes = {}
        /\ req = IdleRequest
        /\ proc = RunningProcess
        /\ EdgeIdle

\* The reloader's ticker and the scheduler's job fire again and again.
ReloaderTicks == updateKeys /\ UNCHANGED budget

RevivalJobRuns == ReviveDisabledKeys /\ UNCHANGED budget

SavesLand == \E w \in writes : WriteLands(w)

CooldownsElapse == \E i \in 1..Len(keys) : CooldownElapses(i)

\* The upstream answers every probe with 200.
ProbesSucceed == \E p \in probes : ReviveProbeDone(p, TRUE)

NextRevival ==
    \/ ReloaderTicks
    \/ RevivalJobRuns
    \/ SavesLand
    \/ CooldownsElapse
    \/ ProbesSucceed

\* The scheduler, the reloader, the saves and the probes keep running, and
\* time keeps passing.
SpecRevival ==
    /\ InitRevival
    /\ [][NextRevival]_vars
    /\ WF_vars(ReloaderTicks)
    /\ WF_vars(RevivalJobRuns)
    /\ WF_vars(SavesLand)
    /\ WF_vars(CooldownsElapse)
    /\ WF_vars(ProbesSucceed)

\* ------------------------------------------------------------------ claims

\* The entries GetNextKey may choose from.
Eligible(ks) == {i \in 1..Len(ks) : ~ks[i].Disabled}

\* The entry of the pool ks that lives at address a.
EntryAt(ks, a) == ks[CHOOSE i \in 1..Len(ks) : ks[i].addr = a]

\* This step is a successful GetNextKey that returned key.
Returned(key) == selected'[key] = selected[key] + 1

\* C1: on a pool sorted by usageCount ascending, a successful GetNextKey
\* returns a non-disabled key whose in-memory usageCount is the minimum over
\* the non-disabled keys at the time of the call, the earliest such entry of
\* the list, and raises exactly that entry's usageCount by 1.
C1_SelectsLeastUsed ==
    [][\A key \in KeyIds :
        (Returned(key) /\ IsSorted(keys)) =>
            \E i \in Eligible(keys) :
                /\ keys[i].ID = key
                /\ \A j \in Eligible(keys) :
                      /\ keys[i].UsageCount <= keys[j].UsageCount
                      /\ (j < i => keys[j].UsageCount < keys[i].UsageCount)
                /\ Len(keys') = Len(keys)
                /\ {keys'[n].addr : n \in 1..Len(keys')} =
                       {keys[n].addr : n \in 1..Len(keys)}
                /\ \A n \in 1..Len(keys) :
                      EntryAt(keys', keys[n].addr) =
                        IF n = i THEN [keys[n] EXCEPT !.UsageCount = @ + 1]
                        ELSE keys[n]]_vars

\* A selection has skipped a disabled entry with a smaller usage count and
\* taken the first of two enabled entries that tie.
C1_Witness ==
    /\ \E key \in KeyIds : selected[key] = 1 /\ last.key = key
    /\ last.op = "GetNextKey"
    /\ \E i, j, n \in 1..Len(keys) :
        /\ keys[i].Disabled /\ ~keys[j].Disabled /\ ~keys[n].Disabled
        /\ keys[j].ID = last.key
        /\ keys[i].UsageCount < keys[j].UsageCount - 1
        /\ keys[n].UsageCount = keys[j].UsageCount - 1

\* The entry of key in the pool ks (key is pooled).
EntryOf(ks, key) == ks[IndexOfKey(ks, key)]

Pooled(ks, key) == IndexOfKey(ks, key) # 0

\* C2: the disableThreshold-th consecutive HandleKeyFailure call on a pooled
\* key that began at failureCount 0, not disabled, leaves it disabled
\* (Disabled, status disabled, failureCount = threshold); and from then on no
\* GetNextKey returns that key until a HandleKeySuccess call for it occurs,
\* whatever reloads, probes and selections happen in between.
C2_DisabledUntilSuccess ==
    [][\A key \in KeyIds :
        /\ (/\ streak[key] = disableThreshold - 1
            /\ streak'[key] = disableThreshold
            /\ Pooled(keys, key)
            /\ EntryOf(keys, key).FailureCount = disableThreshold - 1)
           => /\ Pooled(keys', key)
              /\ EntryOf(keys', key).Disabled
              /\ EntryOf(keys', key).Status = "disabled"
              /\ EntryOf(keys', key).FailureCount = disableThreshold
        /\ key \in tripped => ~Returned(key)]_vars

\* This step is a HandleKeySuccess call for key: direct, or after a probe
\* that returned 200.
SuccessCalled(key) ==
    /\ last'.key = key
    /\ last'.ok
    /\ last'.op \in {"HandleKeySuccess", "ReviveProbe", "TestKeyByIDReturns"}

\* C3: HandleKeySuccess on a pooled key in any state leaves that key with
\* failureCount 0, not disabled and status active.
C3_SuccessRestores ==
    [][\A key \in KeyIds :
        (SuccessCalled(key) /\ Pooled(keys, key)) =>
            /\ Pooled(keys', key)
            /\ EntryOf(keys', key).FailureCount = 0
            /\ ~EntryOf(keys', key).Disabled
            /\ EntryOf(keys', key).Status = "active"]_vars

\* GetNextKey can return key: it is in the list and not disabled.
Selectable(key) == Pooled(keys, key) /\ ~EntryOf(keys, key).Disabled

\* C4: a key disabled for reaching the failure threshold, whose probe would
\* return 200, is eventually re-enabled by the revival job and selectable by
\* GetNextKey again, when the scheduler, the reloader and the saves all keep
\* running.
C4_EventuallyRevived ==
    \A key \in 1..NumKeys : (key \in tripped) ~> Selectable(key)

\* The statuses after which the transport tries another key.
RetryableStatuses == {401, 403, 429, 500, 502, 503}

\* The attempt that just returned failed in a way the transport retries.
FailedRetryably(out) ==
    out.err # "none" \/ out.status \in RetryableStatuses

\* This step is the return of the attempt in flight.
AttemptReturned == req.pc = "sent" /\ req' # req

\* C5: one client request makes at most min(GetAvailableKeyCount(), 5)
\* upstream requests; with more than 5 enabled keys, every attempt answered
\* retryably and a key found for every retry, it makes exactly 5.
C5_AttemptLimit ==
    /\ req.sent <= Min(req.numAvailable, 5)
    /\ (/\ req.pc = "done"
        /\ req.numAvailable > 5
        /\ req.nFail = req.sent
        /\ req.end # "nokey") => req.sent = 5

\* Six keys were enabled, five attempts were made and all five failed.
C5_Witness ==
    /\ req.pc = "done"
    /\ req.numAvailable = 6
    /\ req.sent = 5
    /\ req.nFail = 5
    /\ req.end = "exhausted"

\* C6: every attempt after the first uses a key from GetNextKey that differs
\* from the key of the attempt that just failed, whenever the pool has at
\* least two enabled keys, whatever their usage counts.
C6_RetryUsesDifferentKey ==
    [][(/\ req.pc = "retry"
        /\ req'.pc = "sent"
        /\ Cardinality(Eligible(keys)) >= 2) => req'.auth # req.auth]_vars

\* C7: an upstream status >= 400 outside {401, 403, 429, 500, 502, 503} ends
\* the request: no further attempt, no HandleKeyFailure and no
\* HandleKeySuccess, the pool as it was, and the client gets that status and
\* the upstream's body.
C7_NonRetryablePassesThrough ==
    [][/\ (/\ AttemptReturned
            /\ req'.outcome.err = "none"
            /\ req'.outcome.status >= 400
            /\ req'.outcome.status \notin RetryableStatuses)
           => /\ req'.pc = "done"
              /\ req'.sent = req.sent
              /\ req'.nFail = req.nFail
              /\ req'.nSucc = req.nSucc
              /\ req'.report = req.report
              /\ keys' = keys
              /\ writes' = writes
              /\ req'.status = req'.outcome.status
              /\ req'.body = "upstream"
       /\ req.pc = "done" => req' = req]_vars

\* The second attempt was answered 404 and the client got the 404.
C7_Witness ==
    /\ req.pc = "done"
    /\ req.outcome = [err |-> "none", status |-> 404]
    /\ req.status = 404
    /\ req.sent = 2
    /\ req.nFail = 1

\* The request ended because the attempt limit was reached or because
\* GetNextKey failed before a retry.
GaveUp(r) == r.pc = "done" /\ r.end \in {"exhausted", "nokey"}

\* C8 as stated: a request that runs out of attempts, or finds no key for a
\* retry, is answered 503 "Service unavailable after multiple retries", and
\* no upstream request follows.
C8_GivesUpWith503 ==
    [][/\ GaveUp(req') =>
            /\ req'.status = 503
            /\ req'.body = "Service unavailable after multiple retries"
       /\ GaveUp(req) => req' = req]_vars

\* C8, amended: the same, unless the last error is the cancellation of the
\* client's own request; then nothing is written.
C8_GivesUpWith503UnlessCanceled ==
    [][/\ GaveUp(req') =>
            IF req'.lastErr = "canceled"
            THEN req'.status = 0 /\ req'.body = ""
            ELSE /\ req'.status = 503
                 /\ req'.body = "Service unavailable after multiple retries"
       /\ GaveUp(req) => req' = req]_vars

\* GetNextKey found no key for a retry, with attempts left; the client got
\* the 503.
C8_Witness ==
    /\ req.pc = "done"
    /\ req.end = "nokey"
    /\ req.lastErr = "other"
    /\ req.sent < req.numAttempts
    /\ req.status = 503

\* C9: the key reported after an attempt is the key in the Authorization
\* header of that attempt; a retryable failure reports exactly one failure,
\* for that key, before the next key is fetched; a success reports success
\* for that key only.
C9_ReportsOwnKey ==
    [][/\ AttemptReturned =>
            LET out == req'.outcome
                key == req.auth IN
            /\ FailedRetryably(out) =>
                  /\ req'.report = [kind |-> "failure", key |-> key]
                  /\ req'.nFail = req.nFail + 1
                  /\ req'.nSucc = req.nSucc
                  /\ req'.auth = key
                  /\ req'.sent = req.sent
                  /\ Pooled(keys, key) =>
                        keys' = [keys EXCEPT ![IndexOfKey(keys, key)] = FailedKey(@)]
            /\ (out.err = "none" /\ out.status < 400) =>
                  /\ req'.report = [kind |-> "success", key |-> key]
                  /\ req'.nSucc = req.nSucc + 1
                  /\ req'.nFail = req.nFail
                  /\ \A n \in 1..Len(keys) : keys[n].ID # key => keys'[n] = keys[n]
       /\ req.pc = "sent" => req.nFail = req.i
       /\ req.pc = "retry" => req.nFail = req.i + 1]_vars

\* The first attempt failed on one key, the second succeeded on another,
\* and the success was reported for the second key.
C9_Witness ==
    /\ req.pc = "done"
    /\ req.end = "success"
    /\ req.sent = 2
    /\ req.report = [kind |-> "success", key |-> req.auth]
    /\ \E n \in 1..Len(keys) : keys[n].ID # req.auth /\ keys[n].FailureCount = 1

C39_SelectedRequestIsAttempted ==
    (req.pc = "done" /\ req.fetched >= 1) => req.sent >= 1

\* C40: an attempt of a compat request that ends with the error of the
\* client's own cancellation is not charged to the key it used: the step
\* changes no entry of the pool and spawns no save of a row.
C40_CancelNotCharged ==
    [][(last'.op = "AttemptReturns" /\ req'.outcome.err = "canceled") =>
            (keys' = keys /\ writes' = writes)]_vars

\* This step is an operation of a request handler or of a scheduler job on
\* the manager.
UsesManager ==
    last'.op \in {"ServeHTTP", "RoundTrip", "AttemptReturns", "NextAttempt",
                  "ReviveDisabledKeys"}

\* C11: on shutdown the server stops serving first, then the scheduler is
\* stopped, and only then KeyManager.Close is called; no request handler and
\* no scheduler job runs against the manager once Close has begun.
C11_CloseComesLast ==
    [][/\ (~closed /\ closed') =>
            /\ proc.server = "stopped"
            /\ proc.sched = "stopped"
       /\ closed => ~UsesManager]_vars

\* C12: once an attempt of a compat request has ended with the cancellation
\* of the client's context, the transport fetches no other key and makes no
\* further attempt, and the error handler writes no response.
C12_StopsOnCancel ==
    [][req.lastErr = "canceled" =>
          /\ req'.sent = req.sent
          /\ req'.ctxKey = req.ctxKey
          /\ req'.pc = "done" => req'.status = 0 /\ req'.body = ""]_vars

\* C13: every attempt of a compat request sends the body of the first
\* attempt (the sanitised client body); no retry sends a consumed, empty
\* body.
C13_RetriesReplayBody ==
    req.pc = "sent" =>
        /\ req.first = ModifyRequestBody(req.clientBody)
        /\ req.wire = req.first

\* This step is a call of GetNextKey: by another caller, or by the compat
\* engine for the first attempt or for a retry.
GetNextKeyCalled == last'.op \in {"GetNextKey", "ServeHTTP", "NextAttempt"}

\* C14: GetNextKey fails exactly when the pool has no non-disabled entry
\* (GetAvailableKeyCount() = 0); it then returns the empty string, changes no
\* usageCount and enqueues nothing, and the compat engine answers 503
\* without contacting the upstream.
C14_FailsIffNoneEligible ==
    [][GetNextKeyCalled =>
          /\ (GetAvailableKeyCount(keys) = 0) <=> (Eligible(keys) = {})
          /\ (last'.key = NoKey) <=> (Eligible(keys) = {})
          /\ last'.key = NoKey =>
                /\ keys' = keys
                /\ updateQueue' = updateQueue
                /\ selected' = selected
                /\ dropped' = dropped
                /\ last'.op # "GetNextKey" =>
                      /\ req'.pc = "done"
                      /\ req'.sent = req.sent
                /\ last'.op = "ServeHTTP" =>
                      /\ req'.status = 503
                      /\ req'.sent = 0]_vars

\* A compat request found every key of a pool of two or more disabled and
\* was answered 503 with no upstream request.
C14_Witness ==
    /\ req.pc = "done"
    /\ req.end = "nokey at start"
    /\ req.status = 503
    /\ req.sent = 0
    /\ Len(keys) >= 2
    /\ \A n \in 1..Len(keys) : keys[n].Disabled

\* The in-memory usage counts of the keys returned at least once.
UsageOfReturned ==
    {keys[n].UsageCount : n \in {m \in 1..Len(keys) : selected[keys[m].ID] > 0}}

\* C15: from a sorted pool, under GetNextKey calls only, the in-memory usage
\* counts of the keys returned at least once never differ by more than 1.
C15_ReturnedKeysBalanced ==
    \A u, v \in UsageOfReturned : u - v <= 1

\* Two keys have been returned, one of them twice, and their usage counts
\* differ by one.
C15_Witness ==
    \E a, b \in 1..Len(keys) :
        /\ selected[keys[a].ID] >= 2
        /\ selected[keys[b].ID] >= 1
        /\ keys[a].UsageCount = keys[b].UsageCount + 1

\* The probes the revival job has in flight for key.
ReviveProbesFor(ps, key) == {p \in ps : p.kind = "revive" /\ p.key = key}

\* The save of the healthy row of key has been issued or has landed.
SavedHealthy(key) ==
    \/ \E w \in writes' : w.ID = key /\ w.Status = "active" /\ w.FailureCount = 0
    \/ db'[key].Status = "active" /\ db'[key].FailureCount = 0

\* C16: ReviveDisabledKeys probes exactly the entries that are disabled and
\* past the cooldown; an entry whose probe returns 200 ends with failureCount
\* 0, not disabled, status active, and that state is saved; the other
\* entries are neither probed nor changed.
C16_RevivesProbedKeys ==
    [][/\ last'.op = "ReviveDisabledKeys" =>
            /\ keys' = keys
            /\ \A n \in 1..Len(keys) :
                  IF keys[n].Disabled /\ keys[n].DisabledAt = "past"
                  THEN \E p \in probes' :
                         p.kind = "revive" /\ p.addr = keys[n].addr
                  ELSE \A p \in probes' \ probes : p.addr # keys[n].addr
       /\ (last'.op = "ReviveProbe" /\ last'.ok) =>
            LET key == last'.key IN
            /\ Pooled(keys', key)
            /\ EntryOf(keys', key).FailureCount = 0
            /\ ~EntryOf(keys', key).Disabled
            /\ EntryOf(keys', key).Status = "active"
            /\ SavedHealthy(key)
            /\ Len(keys') = Len(keys)
            /\ \A n \in 1..Len(keys) : keys[n].ID # key => keys'[n] = keys[n]]_vars

\* The entry of the list that the probe answered in this step was started for.
ProbedHere(e) == \E p \in probes \ probes' : p.kind = "revive" /\ p.addr = e.addr

\* C17: a failed probe of ReviveDisabledKeys leaves the probed entry's
\* Disabled flag, failureCount and status as they were, sets its DisabledAt
\* to the current time so that the next job does not collect it, changes no
\* other entry and issues no persistence write.
C17_FailedProbeOnlyTouchesTimer ==
    [][(last'.op = "ReviveProbe" /\ ~last'.ok) =>
          /\ writes' = writes
          /\ db' = db
          /\ Len(keys') = Len(keys)
          /\ \A n \in 1..Len(keys) :
                IF ProbedHere(keys[n])
                THEN /\ keys'[n] = [keys[n] EXCEPT !.DisabledAt = "now"]
                     /\ n \notin Revivable(keys')
                ELSE keys'[n] = keys[n]]_vars

\* A failed revival probe has just pushed the timer of a disabled key.
C17_Witness ==
    /\ last.op = "ReviveProbe"
    /\ ~last.ok
    /\ Pooled(keys, last.key)
    /\ EntryOf(keys, last.key).Disabled
    /\ EntryOf(keys, last.key).FailureCount = disableThreshold
    /\ EntryOf(keys, last.key).DisabledAt = "now"
    /\ writes = {}
    /\ db[last.key].Status = "disabled"

\* C18: in CheckAllKeysHealth an entry that is not disabled when its probe
\* fails is disabled when its goroutine is through: the key is in the pool
\* with failureCount = threshold, Disabled and status disabled, whatever
\* HandleKeySuccess, HandleKeyFailure and reload did to the key in between.
C18_FailedHealthProbeDisables ==
    [][last'.op = "HealthReportsFailure" =>
          /\ Pooled(keys', last'.key)
          /\ EntryOf(keys', last'.key).FailureCount = disableThreshold
          /\ EntryOf(keys', last'.key).Disabled
          /\ EntryOf(keys', last'.key).Status = "disabled"]_vars

\* The list after one HandleKeySuccess call for key.
AfterSuccess(ks, key) ==
    [n \in 1..Len(ks) |-> IF n = IndexOfKey(ks, key) THEN RevivedKey(ks[n]) ELSE ks[n]]

\* The list after one HandleKeyFailure call for key.
AfterFailure(ks, key) ==
    [n \in 1..Len(ks) |-> IF n = IndexOfKey(ks, key) THEN FailedKey(ks[n]) ELSE ks[n]]

\* C19: TestKeyByID returns nil exactly when the probe returned 200, and then
\* HandleKeySuccess has been applied to the key; when it returns the probe's
\* error, HandleKeyFailure has been applied exactly once; for an id that is
\* neither in memory nor in the store it returns an error without probing
\* and leaves the pool unchanged.
C19_TestKeyByIDOutcome ==
    [][/\ last'.op = "TestKeyByIDReturns" =>
            /\ \E p \in probes \ probes' : p.kind = "test" /\ p.phase = "probe"
            /\ keys' = IF last'.ok THEN AfterSuccess(keys, last'.key)
                                   ELSE AfterFailure(keys, last'.key)
            /\ (~last'.ok /\ Pooled(keys, last'.key)) =>
                  EntryOf(keys', last'.key).FailureCount
                      = EntryOf(keys, last'.key).FailureCount + 1
       /\ last'.op = "TestKeyByIDNotFound" =>
            /\ ~last'.ok
            /\ ~Pooled(keys, last'.key)
            /\ last'.key \notin KeyIds
            /\ \A p \in probes \cup probes' : p.key = last'.key => p.phase = "fetch"
            /\ keys' = keys
            /\ writes' = writes
            /\ db' = db]_vars

\* A manual test whose probe failed has just returned its error after
\* counting one failure on a key fetched from the store.
C19_Witness ==
    /\ last.op = "TestKeyByIDReturns"
    /\ ~last.ok
    /\ Pooled(keys, last.key)
    /\ db0[last.key].Status = "disabled"
    /\ EntryOf(keys, last.key).FailureCount = disableThreshold + 1
    /\ \E w \in writes : w.ID = last.key /\ w.FailureCount = disableThreshold + 1

C21_StatusMatchesCount ==
    \A n \in 1..Len(keys) :
        /\ ~(/\ keys[n].Status = "active"
             /\ ~keys[n].Disabled
             /\ keys[n].FailureCount >= disableThreshold)
        /\ ~(/\ keys[n].Status = "disabled"
             /\ keys[n].FailureCount < disableThreshold)

\* The token a request presents: the one of a well-formed Bearer header,
\* else the one of x-goog-api-key.
Presented ==
    IF /\ auth.authorization.n = 2
       /\ auth.authorization.scheme = "Bearer"
       /\ auth.authorization.token # EmptyToken
    THEN auth.authorization.token
    ELSE auth.goog

\* The row the store holds for the presented token.
PresentedRow == auth.store[Presented]

\* C22: AuthMiddleware decides by the table: no token -> 401; a store error
\* on the lookup -> 500; unknown token -> 401; known token that is not
\* active -> 403; active token with an expiry in the past -> 403; active
\* token with no expiry or one not in the past -> the next handler runs.
C22_AuthTable ==
    auth.pc = "done" =>
        IF Presented = EmptyToken
        THEN auth.status = 401 /\ ~auth.next
        ELSE IF auth.lookup = "error"
        THEN auth.status = 500 /\ ~auth.next
        ELSE IF PresentedRow.Status = "none"
        THEN auth.status = 401 /\ ~auth.next
        ELSE IF PresentedRow.Status # "active"
        THEN auth.status = 403 /\ ~auth.next
        ELSE IF PresentedRow.ExpiresAt # ZeroTime /\ PresentedRow.ExpiresAt < auth.now
        THEN auth.status = 403 /\ ~auth.next
        ELSE auth.status = 0 /\ auth.next

\* An active token sent in x-goog-api-key beside an Authorization header
\* that is not a Bearer header has been refused as expired.
C22_Witness ==
    /\ auth.pc = "done"
    /\ auth.authorization.scheme = "Basic"
    /\ auth.goog # EmptyToken
    /\ auth.lookup = "ok"
    /\ auth.store[auth.goog].Status = "active"
    /\ auth.store[auth.goog].ExpiresAt # ZeroTime
    /\ auth.store[auth.goog].ExpiresAt < auth.now
    /\ auth.status = 403

\* The three recurring jobs of the scheduler, for a revival interval.
ThreeJobs(interval) ==
    {[schedule |-> IF interval # "" THEN interval ELSE "@every 10m",
      job |-> "runKeyRevivalJob"],
     [schedule |-> "@daily", job |-> "runDailyHealthCheckJob"],
     [schedule |-> "@daily", job |-> "resetAPIKeyUsage"]}

\* C23: once Scheduler.Start has run, exactly three jobs are registered: the
\* key revival at the configured interval (every 10 minutes by default),
\* the daily health check and the daily reset of the tokens' usage counts.
C23_ThreeJobs == cron.started => cron.entries = ThreeJobs(cron.interval)

\* C24: two runs of the same job never overlap: when a tick starts
\* ReviveDisabledKeys (or CheckAllKeysHealth), no probe of an earlier run of
\* that job is still in flight, that is, the earlier run has returned.
C24_RunsDoNotOverlap ==
    [][/\ last'.op = "ReviveDisabledKeys" =>
            \A p \in probes : p.kind # "revive"
       /\ last'.op = "CheckAllKeysHealth" =>
            \A p \in probes : p.kind # "health"]_vars

\* C25: the native engine makes one upstream attempt per request and does
\* not touch the key manager; a request for which no key can be selected is
\* answered 503, a request whose client went away gets no response, and any
\* other error of the round trip is answered 502.
C25_NativeFailureSemantics ==
    /\ native.attempts <= 1
    /\ native.pc # "idle" => keys = InitPool(db0)
    /\ native.pc = "done" =>
          /\ native.key = NoKey => native.status = 503 /\ native.attempts = 0
          /\ native.key # NoKey /\ native.err = "canceled" => native.status = 0
          /\ native.key # NoKey /\ native.err = "transport" => native.status = 502

Directed == req.ctxKey # NoKey

\* C27: a path /v1/X goes upstream as /v1beta/openai/X, and a path that
\* already begins with /v1beta/openai/ goes upstream as it is.
C27_PathRewrittenOnce ==
    Directed =>
        /\ HasPrefix(req.clientPath, V1Prefix \o <<"/">>) =>
              req.path = CompatPrefix
                         \o SubSeq(req.clientPath, Len(V1Prefix) + 1, Len(req.clientPath))
        /\ HasPrefix(req.clientPath, CompatPrefix \o <<"/">>) =>
              req.path = req.clientPath

\* The fields section 4.3 lists for removal.
ListedFields == fieldsToRemove \cup {"top_k"}

\* C28: the body the Director leaves for a JSON object has no listed field
\* and no null field, its model has lost a leading "models/", every other
\* field is there with its value, and ContentLength is the byte length of
\* that body; a body that is nil, empty or not JSON is left as it was, with
\* its ContentLength.
C28_BodySanitised ==
    Directed =>
        IF req.clientBody.kind = "json"
        THEN /\ req.reqBody.kind = "json"
             /\ req.reqBody.fields \cap ListedFields = {}
             /\ req.reqBody.nulls = {}
             /\ req.reqBody.model = TrimModelsPrefix(req.clientBody.model)
             /\ req.reqBody.fields = req.clientBody.fields \ ListedFields
             /\ req.reqBody.seed = req.clientBody.seed
             /\ req.reqBody.length = ByteLength(req.reqBody)
        ELSE req.reqBody = req.clientBody

\* The uses of key that the store will never see: counted in memory, and
\* neither persisted nor waiting in the queue.
UsageGap(ks, d, q, key) ==
    EntryOf(ks, key).UsageCount - d[key].UsageCount
        - Cardinality({i \in 1..Len(q) : q[i] = key})

\* C29: with the queue at its capacity GetNextKey still returns the key and
\* counts the use in memory, the queue is left as it was, and the use is
\* never persisted later: the uses missing from the store and the queue grow
\* by one at that call and never shrink.
C29_FullQueueDrops ==
    [][/\ (/\ GetNextKeyCalled
            /\ Len(updateQueue) >= QueueCap
            /\ ~closed
            /\ NextKeyOf(keys) # NoKey) =>
              /\ last'.key = NextKeyOf(keys)
              /\ updateQueue' = updateQueue
              /\ UsageGap(keys', db', updateQueue', NextKeyOf(keys))
                   = UsageGap(keys, db, updateQueue, NextKeyOf(keys)) + 1
       /\ \A key \in KeyIds :
              UsageGap(keys', db', updateQueue', key)
                >= UsageGap(keys, db, updateQueue, key)]_vars

\* A use was dropped at a full queue, the worker has since emptied the
\* queue, and the store still lacks that use.
C29_Witness ==
    /\ last.op = "usageUpdater"
    /\ updateQueue = <<>>
    /\ \E key \in KeyIds :
          /\ dropped[key] > 0
          /\ UsageGap(keys, db, updateQueue, key) > 0

\* C30: HandleKeyFailure on an entry that is already disabled adds one to
\* its failureCount and hands the row to the store, and leaves Disabled,
\* status and DisabledAt as they were: the cooldown is not restarted.
C30_FailureKeepsQuarantine ==
    [][(/\ last'.op = "HandleKeyFailure"
        /\ Pooled(keys, last'.key)
        /\ EntryOf(keys, last'.key).Disabled) =>
          LET old == EntryOf(keys, last'.key)
              new == EntryOf(keys', last'.key)
          IN  /\ new.FailureCount = old.FailureCount + 1
              /\ new.Disabled
              /\ new.Status = old.Status
              /\ new.DisabledAt = old.DisabledAt
              /\ [ID |-> old.ID, Status |-> old.Status,
                  FailureCount |-> old.FailureCount + 1,
                  UsageCount |-> old.UsageCount] \in writes']_vars

\* A failure has been reported for an entry whose cooldown had elapsed: it
\* is still disabled, its count is past the threshold and its cooldown is
\* still over.
C30_Witness ==
    /\ last.op = "HandleKeyFailure"
    /\ Pooled(keys, last.key)
    /\ EntryOf(keys, last.key).Disabled
    /\ EntryOf(keys, last.key).DisabledAt = "past"
    /\ EntryOf(keys, last.key).FailureCount > disableThreshold
    /\ GeminiKey(EntryOf(keys, last.key)) \in writes

\* C31: HandleKeySuccess on a pooled entry with failureCount 0 that is not
\* disabled changes no entry and spawns no save; HandleKeySuccess and
\* HandleKeyFailure for a key that is not in the pool do the same.
C31_NothingToDo ==
    [][/\ (/\ last'.op = "HandleKeySuccess"
            /\ Pooled(keys, last'.key)
            /\ EntryOf(keys, last'.key).FailureCount = 0
            /\ ~EntryOf(keys, last'.key).Disabled) =>
              keys' = keys /\ writes' = writes
       /\ (/\ last'.op \in {"HandleKeySuccess", "HandleKeyFailure"}
            /\ ~Pooled(keys, last'.key)) =>
              keys' = keys /\ writes' = writes]_vars

\* The first operation on a fresh manager was a success reported for a
\* pooled key: nothing is waiting to be saved.
C31_Witness ==
    /\ last.op = "HandleKeySuccess"
    /\ budget = MaxReloadOps - 1
    /\ Pooled(keys, last.key)
    /\ EntryOf(keys, last.key).FailureCount = 0
    /\ ~EntryOf(keys, last.key).Disabled
    /\ keys = InitPool(db0)
    /\ writes = {}

\* C32: for a compat request whose transport read an eligible count of at
\* least one, the keys GetNextKey returned for the request are as many as
\* the upstream attempts: no key is fetched after the final attempt.
C32_OneKeyPerAttempt ==
    /\ req.pc \in {"sent", "retry"} => req.fetched = req.sent
    /\ req.pc = "done" /\ req.numAvailable >= 1 => req.fetched = req.sent

\* The request ended after a retry: two keys were fetched and two attempts
\* made.
C32_Witness ==
    /\ req.pc = "done"
    /\ req.numAvailable >= 2
    /\ req.fetched = 2
    /\ req.sent = 2

\* C33: the pool is sorted by usageCount, non-decreasing, in every state, so
\* the first entry that is not disabled has the least usageCount of the
\* entries that are not disabled.
C33_PoolSorted ==
    /\ IsSorted(keys)
    /\ \A i \in 1..Len(keys) :
          ~keys[i].Disabled =>
              keys[FirstEnabledIndex(keys)].UsageCount <= keys[i].UsageCount

\* C34: no call of GetNextKey sends on the closed usage queue: once Close
\* has closed updateQueue, no request, in flight or newly accepted, reaches
\* the send, and no handler ends in the panic of such a send.
C34_NoSendOnClosedQueue ==
    [][/\ GetNextKeyCalled => ~SendPanics
       /\ req'.end # "panic"]_vars

\* C35: every pooled entry whose status is disabled has Disabled set, the
\* entries TestKeyByID appended included, and GetNextKey returns no entry
\* whose status is disabled.
C35_DisabledStatusNotServed ==
    [][/\ \A i \in 1..Len(keys') :
              keys'[i].Status = "disabled" => keys'[i].Disabled
       /\ (GetNextKeyCalled /\ last'.key # NoKey) =>
              keys[FirstEnabledIndex(keys)].Status # "disabled"]_vars

\* C36: the pool never holds two entries for the same key, whatever the
\* interleaving of TestKeyByID calls for one id with each other, with
\* reloads and with selections.
C36_NoDuplicateEntries ==
    \A i, j \in 1..Len(keys) : keys[i].ID = keys[j].ID => i = j

\* C37: the saves spawned by HandleKeyFailure and HandleKeySuccess for a key
\* reach the store in the order of the in-memory transitions: when no save
\* is pending, the store holds the status and failureCount of every pooled
\* entry.
C37_SavesLandInOrder ==
    writes = {} =>
        \A i \in 1..Len(keys) :
            /\ db[keys[i].ID].Status = keys[i].Status
            /\ db[keys[i].ID].FailureCount = keys[i].FailureCount

====
